---- MODULE Spec2Model ----
(***************************************************************************)
(* Model of the per-completion execution pipeline of human-eval-Rust:      *)
(* rust_check_correctness (the parent, with its process watchdog) and      *)
(* _rust_unsafe_execute (the child process), together with the sandbox     *)
(* dispatch of run_rustc_sandboxed / run_binary_sandboxed and the lint     *)
(* phase _run_clippy_phase.                                                *)
(*                                                                         *)
(* Python values: None is the string "None"; an Optional[bool] field is    *)
(* one of "None", "True", "False"; an f-string is the sequence of its      *)
(* parts, so that its prefix can be inspected.                             *)
(***************************************************************************)
EXTENDS Integers, Sequences, FiniteSets, TLC

VARIABLES
    sandbox_mode,       \* argument of rust_check_correctness ("None" = auto-detect)
    enforce_policy,     \* argument
    clippy_required,    \* argument
    completion,         \* argument: the raw completion, by the features the code inspects
    SANDBOX_AVAILABLE,  \* module flag set by the import of .sandbox
    ppc,                \* position of the parent in rust_check_correctness
    cpc,                \* position of the child in _rust_unsafe_execute
    result_dict,        \* the child's result_dict
    result,             \* the manager list shared by parent and child
    ret,                \* the dict returned by rust_check_correctness
    spawned,            \* subprocesses started by the child so far
    source_written,     \* solution.rs has been written
    cleaned_completion, \* the child's cleaned_completion
    reached,            \* phases (compile, lint, run) the child has entered
    raised,             \* the unexpected exception raised in the child, if any
    timed_out,          \* phases whose command exceeded its own budget
    child_appends,      \* number of result.append calls made by the child
    infra_origin,       \* failures of the sandbox or toolchain layer met so far
    watchdog_killed,    \* process.kill() was called by the parent
    lint_outcome,       \* what happened in the lint phase ("None" before it)
    max_workers,        \* ResourceMonitor.max_workers
    memory_percent,     \* psutil.virtual_memory().percent, as it is now
    _active_workers,    \* ResourceMonitor._active_workers
    _lock,              \* the caller inside `with self._lock`, 0 if free
    mpc,                \* position of each caller of the ResourceMonitor
    local,              \* the value of _active_workers each caller has read
    released,           \* callers that have completed a release_worker call
    disciplined,        \* callers release only a slot they have acquired
    requested,          \* the sandbox mode the operator or caller asked for
    allow_no_sandbox,   \* the command line's opt-in to run unconfined
    non_interactive,    \* stdin is not a terminal
    tools,              \* the confinement tools installed on the host
    flow,               \* "cli": through entry_point; "library": a direct call
    spc,                \* position of the evaluation run
    resolved_mode,      \* the sandbox_mode handed to the execution pipeline
    sb_error,           \* the exception that ended the run ("None" if none)
    ran,                \* the commands launched, with their confinement
    source_text,        \* the text a text-level function is applied to
    text_family,        \* the kind of text source_text is
    tpc,                \* position of the application to source_text
    normalized,         \* _normalize_unicode(source_text)
    renormalized,       \* _normalize_unicode(normalized)
    verdict,            \* what _sanitize_rust_completion returned
    callee,             \* the pure function being applied ("off" if none)
    argument,           \* its argument
    outcome,            \* <<>> before the call, <<value returned>> after it
    namespace,          \* os, shutil, subprocess, builtins, sys.modules: name -> value
    scopes,             \* the ReliabilityContext objects entered and not yet left
    left,               \* the scope left last, if any
    seconds,            \* argument of time_limit
    now,                \* time since timer.start()
    lpc,                \* position of the thread that uses time_limit
    body_kind,          \* how the body of the with block ends, if it does
    timer_pc,           \* position of the threading.Timer thread
    finished,           \* the Timer's `finished` event (set by cancel())
    timed_out_set,      \* the `timed_out` event of time_limit is set
    body_done_at,       \* <<time at which the body ended>>, <<>> before
    exit_kind,          \* how the with statement was left ("None" before)
    samples,            \* the sample file: a sequence of [task_id, passes]
    apc,                \* position of evaluate_functional_correctness
    futures,            \* the futures submitted, in submission order
    all_results_list,   \* the results, in the order the futures completed
    results,            \* task_id -> list of (completion_id, result), in key order
    total,              \* per key of results: number of results
    correct,            \* per key of results: number of passed results
    rows                \* the rows written to <sample_file>_results.jsonl

vars == <<sandbox_mode, enforce_policy, clippy_required, completion,
          SANDBOX_AVAILABLE, ppc, cpc, result_dict, result, ret, spawned,
          source_written, cleaned_completion, reached, raised, timed_out,
          child_appends, infra_origin, watchdog_killed, lint_outcome,
          max_workers, memory_percent, _active_workers, _lock, mpc, local,
          released, disciplined, requested, allow_no_sandbox,
          non_interactive, tools, flow, spc, resolved_mode, sb_error,
          ran, source_text, text_family, tpc, normalized, renormalized,
          verdict, callee, argument, outcome, namespace, scopes, left,
          seconds, now, lpc, body_kind, timer_pc, finished, timed_out_set,
          body_done_at, exit_kind, samples, apc, futures,
          all_results_list, results, total, correct, rows>>

\* The variables of the execution pipeline.
pipeline == <<sandbox_mode, enforce_policy, clippy_required, completion,
              SANDBOX_AVAILABLE, ppc, cpc, result_dict, result, ret, spawned,
              source_written, cleaned_completion, reached, raised, timed_out,
              child_appends, infra_origin, watchdog_killed, lint_outcome>>

\* The variables of the ResourceMonitor.
monitor == <<max_workers, memory_percent, _active_workers, _lock, mpc, local,
             released, disciplined>>

\* The variables of an evaluation run as the sandbox layer sees it.
cli == <<requested, allow_no_sandbox, non_interactive, tools, flow, spc,
         resolved_mode, sb_error, ran>>

\* The variables of an application of a text-level function.
textual == <<source_text, text_family, tpc, normalized, renormalized,
             verdict>>

\* The variables of an application of a pure helper function.
pure == <<callee, argument, outcome>>

\* The variables of the ReliabilityContext scopes.
guard == <<namespace, scopes, left>>

\* The variables of a use of time_limit.
scoped == <<seconds, now, lpc, body_kind, timer_pc, finished, timed_out_set,
            body_done_at, exit_kind>>

\* The variables of a run of evaluate_functional_correctness.
aggregation == <<samples, apc, futures, all_results_list, results, total,
                 correct, rows>>

\* The variables of the helpers and utilities around the pipeline.
util == <<pure, guard, scoped, aggregation>>

\* What the helpers and utilities never touch.
notutil == <<pipeline, monitor, cli, textual>>

\* What the pure helper functions never touch.
notpure == <<notutil, guard, scoped, aggregation>>

\* What a ReliabilityContext never touches.
notguard == <<notutil, pure, scoped, aggregation>>

\* What time_limit never touches.
notscoped == <<notutil, pure, guard, aggregation>>

\* What the aggregation of results never touches.
notaggregation == <<notutil, pure, guard, scoped>>

\* The variables of the other components, which the pipeline never touches.
aux == <<monitor, cli, textual, util>>

\* What the ResourceMonitor never touches.
notmonitor == <<pipeline, cli, textual, util>>

\* What the sandbox layer never touches.
notcli == <<pipeline, monitor, textual, util>>

\* What the text-level functions never touch.
nottext == <<pipeline, monitor, cli, util>>

None == "None"

PyBool(b) == IF b THEN "True" ELSE "False"

\* ------------------------------------------------------------------------
\* Inputs
\* ------------------------------------------------------------------------

MAX_COMPLETION_LENGTH == 100000

MAX_COMPLETION_LINES == 5000

\* Texts carried by unexpected exceptions (str(exc)).
ExcTexts == {"boom", "disk full"}

\* Sandbox modes a caller may pass; "bogus" stands for any unknown string.
SandboxModes == {None, "none", "firejail", "docker", "bogus"}

\* A completion is described by what the pipeline looks at:
\*   len, newlines, nul, encodable : inspected by _validate_completion
\*   deny      : first deny-listed pattern in the cleaned body ("None" if none)
\*   raw_danger: a raw string literal of the cleaned body holds a dangerous word
\*   fn_main   : the raw completion has `fn main(` outside comments and strings
\*   main_removed : every `fn main` of the raw completion is in a trailing
\*                  block that _extract_function_body leaves out
Completions ==
    { [len |-> l, newlines |-> n, nul |-> z, encodable |-> e,
       deny |-> d, raw_danger |-> r, fn_main |-> m, main_removed |-> t] :
        l \in {0, 40, MAX_COMPLETION_LENGTH + 1},
        n \in {0, MAX_COMPLETION_LINES + 1},
        z \in BOOLEAN, e \in BOOLEAN,
        d \in {None, "std::process"}, r \in BOOLEAN, m \in BOOLEAN,
        t \in BOOLEAN }

\* The completions used as inputs: one for each outcome of validation and,
\* among the valid ones, one for each outcome of the policy check.
InputCompletions ==
    { c \in Completions :
        /\ c.newlines <= c.len
        /\ (c.len = 0 => ~c.nul /\ c.encodable /\ c.deny = None /\ ~c.raw_danger /\ ~c.fn_main)
        /\ (c.nul => c.encodable /\ c.len = 40)
        /\ (~c.encodable => c.len = 40 /\ c.newlines = 0)
        /\ (c.len # 40 \/ c.newlines # 0 \/ c.nul \/ ~c.encodable
              => c.deny = None /\ ~c.raw_danger /\ ~c.fn_main)
        /\ (c.raw_danger => c.deny = None /\ ~c.fn_main)
        /\ (c.main_removed => c.fn_main) }

\* ------------------------------------------------------------------------
\* Pure helpers of rust_execution.py
\* ------------------------------------------------------------------------

check_main_free(c) == ~c.fn_main

\* A message-valued None (and the empty string): both are falsy in Python.
NoMsg == <<>>

\* _validate_completion with the NUL check moved before the line count.
ValidateNulFirst(c) ==
    IF c.len = 0 THEN <<"empty completion">>
    ELSE IF c.len > MAX_COMPLETION_LENGTH THEN <<"completion too long">>
    ELSE IF c.nul THEN <<"null byte in completion">>
    ELSE IF c.newlines > MAX_COMPLETION_LINES THEN <<"too many lines">>
    ELSE IF ~c.encodable THEN <<"invalid UTF-8 encoding">>
    ELSE NoMsg

_validate_completion(c) ==
    IF c.len = 0 THEN <<"empty completion">>
    ELSE IF c.len > MAX_COMPLETION_LENGTH THEN <<"completion too long">>
    ELSE IF c.newlines > MAX_COMPLETION_LINES THEN <<"too many lines">>
    ELSE IF c.nul THEN <<"null byte in completion">>
    ELSE IF ~c.encodable THEN <<"invalid UTF-8 encoding">>
    ELSE NoMsg

\* The cleaned body, by the features the policy engine looks at.
_extract_function_body(c) ==
    [deny |-> c.deny, raw_danger |-> c.raw_danger,
     fn_main |-> c.fn_main /\ ~c.main_removed]

_sanitize_rust_completion(body) ==
    IF body.deny # None THEN <<"disallowed usage of ", body.deny>>
    ELSE IF body.raw_danger THEN <<"disallowed pattern in raw string">>
    ELSE NoMsg

InitialResultDict(c) ==
    [compile_ok |-> None, test_ok |-> None, clippy_ok |-> None,
     error_type |-> None, stderr |-> NoMsg, passed |-> FALSE,
     main_free |-> check_main_free(c), result |-> NoMsg]

\* result_dict after a terminal failure: error_type, stderr and result set.
Failed(rd, etype, err, res) ==
    [rd EXCEPT !.error_type = etype, !.stderr = err, !.result = res]

\* ------------------------------------------------------------------------
\* Commands and their outcomes
\* ------------------------------------------------------------------------

\* subprocess.CompletedProcess
Completed(rc) ==
    [kind |-> "completed", returncode |-> rc,
     exc |-> [type |-> None, text |-> NoMsg], cmd_rustc |-> FALSE]

\* An exception leaving the call; cmd_rustc: "rustc" in str(e.cmd).
Raised(t, x, cr) ==
    [kind |-> "raised", returncode |-> 0,
     exc |-> [type |-> t, text |-> x], cmd_rustc |-> cr]

\* What the environment does to a command:
\*   exit0 / exit1 : the command runs and exits with that status
\*   timeout       : the command is still running when its budget is spent
\*   infra         : the sandbox or toolchain is broken or missing
\*   probe_timeout : the sandbox's own toolchain validation times out
\*   oserror       : launching the command raises an OSError
\*   interrupt     : a BaseException (KeyboardInterrupt) arrives meanwhile
CmdEvents == {"exit0", "exit1", "timeout", "infra", "probe_timeout",
              "oserror", "interrupt"}

CmdEnvs ==
    { [docker |-> d, firejail |-> f, ev |-> e, text |-> <<x>>, path_rustc |-> p] :
        d \in BOOLEAN, f \in BOOLEAN, e \in CmdEvents, x \in ExcTexts,
        p \in BOOLEAN }

\* Unexpected exceptions: an ordinary Exception or a bare BaseException.
UnexpectedExcs ==
    { [type |-> t, text |-> <<x>>] :
        t \in {"Exception", "BaseException"}, x \in ExcTexts }

\* ResolveMode falling back to "none" when the requested tool is missing.
ResolveModeDowngrade(mode, env) ==
    IF mode = None
    THEN IF env.docker THEN "docker"
         ELSE IF env.firejail THEN "firejail"
         ELSE "none"
    ELSE IF mode = "firejail" /\ ~env.firejail THEN "none"
    ELSE IF mode = "docker" /\ ~env.docker THEN "none"
    ELSE mode

\* Auto-detection of the sandbox mode (both dispatchers do the same).
ResolveMode(mode, env) ==
    IF mode = None
    THEN IF env.docker THEN "docker"
         ELSE IF env.firejail THEN "firejail"
         ELSE "none"
    ELSE mode

\* The events that can happen under a resolved mode: a confinement tool that
\* is not there cannot run anything.
PossibleEvent(resolved, env) ==
    /\ (env.ev = "probe_timeout" => resolved = "docker")
    /\ (resolved = "docker" /\ ~env.docker
            => env.ev \in {"infra", "oserror", "interrupt"})
    /\ (resolved = "firejail" /\ ~env.firejail
            => env.ev \in {"oserror", "interrupt"})
    /\ (resolved \notin {"docker", "firejail", "none"} => env.ev = "infra")

run_rustc_in_docker(env) ==
    CASE env.ev = "exit0" -> Completed(0)
      [] env.ev = "exit1" -> Completed(1)
      [] env.ev = "timeout" -> Completed(124)
      [] env.ev = "infra" ->
            Raised("SandboxError", <<"Docker infrastructure error">>, FALSE)
      [] env.ev = "probe_timeout" -> Raised("TimeoutExpired", <<"timed out">>, TRUE)
      [] env.ev = "oserror" -> Raised("Exception", env.text, FALSE)
      [] env.ev = "interrupt" -> Raised("BaseException", env.text, FALSE)

run_rustc_with_firejail(env) ==
    CASE env.ev = "exit0" -> Completed(0)
      [] env.ev \in {"exit1", "infra"} -> Completed(1)
      [] env.ev = "timeout" -> Completed(124)
      [] env.ev = "oserror" -> Raised("Exception", env.text, FALSE)
      [] env.ev = "interrupt" -> Raised("BaseException", env.text, FALSE)

\* subprocess.run(["rustc", ...], timeout=...) on the host
run_rustc_direct(env) ==
    CASE env.ev = "exit0" -> Completed(0)
      [] env.ev = "exit1" -> Completed(1)
      [] env.ev = "timeout" -> Raised("TimeoutExpired", <<"timed out">>, TRUE)
      [] env.ev \in {"infra", "oserror"} -> Raised("Exception", env.text, FALSE)
      [] env.ev = "interrupt" -> Raised("BaseException", env.text, FALSE)

run_rustc_sandboxed(mode, env) ==
    LET resolved == ResolveMode(mode, env) IN
    CASE resolved = "docker" -> run_rustc_in_docker(env)
      [] resolved = "firejail" -> run_rustc_with_firejail(env)
      [] resolved = "none" ->
            IF env.ev = "infra"
            THEN Raised("SandboxError", <<"rustc not found in PATH">>, FALSE)
            ELSE run_rustc_direct(env)
      [] OTHER -> Raised("SandboxError", <<"Unknown sandbox mode">>, FALSE)

_compile_rust_code(use_sandbox, mode, env) ==
    IF use_sandbox THEN run_rustc_sandboxed(mode, env) ELSE run_rustc_direct(env)

\* run_binary_in_docker and run_binary_with_firejail: a timeout is turned
\* into a CompletedProcess with returncode 124; a broken sandbox shows up as
\* a non-zero exit status.
run_binary_confined(env) ==
    CASE env.ev = "exit0" -> Completed(0)
      [] env.ev = "exit1" -> Completed(1)
      [] env.ev = "infra" -> Completed(125)
      [] env.ev = "timeout" -> Completed(124)
      [] env.ev = "oserror" -> Raised("Exception", env.text, FALSE)
      [] env.ev = "interrupt" -> Raised("BaseException", env.text, FALSE)

\* subprocess.run([test_binary], timeout=...) on the host; the command is the
\* path of the binary inside the temporary directory.
run_binary_direct(env) ==
    CASE env.ev = "exit0" -> Completed(0)
      [] env.ev = "exit1" -> Completed(1)
      [] env.ev = "timeout" ->
            Raised("TimeoutExpired", <<"timed out">>, env.path_rustc)
      [] env.ev = "oserror" -> Raised("Exception", env.text, FALSE)
      [] env.ev = "interrupt" -> Raised("BaseException", env.text, FALSE)

run_binary_sandboxed(mode, env) ==
    LET resolved == ResolveMode(mode, env) IN
    CASE resolved \in {"docker", "firejail"} -> run_binary_confined(env)
      [] resolved = "none" -> run_binary_direct(env)
      [] OTHER -> Raised("SandboxError", <<"Unknown sandbox mode">>, FALSE)

_run_test_binary(use_sandbox, mode, env) ==
    IF use_sandbox THEN run_binary_sandboxed(mode, env) ELSE run_binary_direct(env)

\* The mode a command of the child runs under.
EffectiveMode(use_sandbox, mode, env) ==
    IF use_sandbox THEN ResolveMode(mode, env) ELSE "none"

\* The command itself was launched (not only the sandbox around it).
Launched(resolved, env) ==
    \/ env.ev \in {"exit0", "exit1", "timeout"}
    \/ /\ env.ev = "interrupt"
       /\ (resolved = "docker" => env.docker)
       /\ (resolved = "firejail" => env.firejail)

\* The failures of a command that come from the sandbox or toolchain layer
\* and not from the candidate code: a broken or missing sandbox or toolchain,
\* and a timeout that the sandbox wrapper, not the caller, has handled.
InfraFailures(phase, resolved, env) ==
    IF env.ev \in {"infra", "probe_timeout"} THEN {<<phase, "infra">>}
    ELSE IF env.ev = "timeout" /\ resolved \in {"docker", "firejail"}
         THEN {<<phase, "sandbox_timeout">>}
    ELSE IF env.ev = "oserror"
            /\ \/ resolved = "docker" /\ ~env.docker
               \/ resolved = "firejail" /\ ~env.firejail
         THEN {<<phase, "sandbox_missing">>}
    ELSE {}

\* `except SandboxError`: when the import of .sandbox failed SandboxError is
\* Exception, and the clause catches every Exception.
IsSandboxError(available, exc) ==
    IF available THEN exc.type = "SandboxError"
    ELSE exc.type \in {"SandboxError", "Exception", "TimeoutExpired"}

\* ------------------------------------------------------------------------
\* ResourceMonitor: configuration and callers
\* ------------------------------------------------------------------------

NumCallers == 3

MaxWorkers == 2

Callers == 1..NumCallers

\* threading.Lock() held by nobody.
Unlocked == 0

\* Default of ResourceMonitor.max_memory_percent.
max_memory_percent == 80

\* Readings of psutil.virtual_memory().percent: below and above the limit.
MemoryReadings == {50, 90}

\* ResourceMonitor.__init__ (lines 18-29), no caller being active yet.
MonitorConstructed ==
    /\ max_workers \in 1..MaxWorkers
    /\ memory_percent \in MemoryReadings
    /\ _active_workers = 0
    /\ _lock = Unlocked
    /\ mpc = [t \in Callers |-> "idle"]
    /\ local = [t \in Callers |-> 0]
    /\ released = {}

\* No ResourceMonitor is in use.
MonitorOff ==
    /\ max_workers = 1
    /\ memory_percent = 50
    /\ _active_workers = 0
    /\ _lock = Unlocked
    /\ mpc = [t \in Callers |-> "off"]
    /\ local = [t \in Callers |-> 0]
    /\ released = {}
    /\ disciplined = TRUE

\* No evaluation run is under way.
CliOff ==
    /\ requested = None
    /\ allow_no_sandbox = FALSE
    /\ non_interactive = TRUE
    /\ tools = [docker |-> FALSE, firejail |-> FALSE]
    /\ flow = "off"
    /\ spc = "off"
    /\ resolved_mode = None
    /\ sb_error = None
    /\ ran = {}

\* No text-level function is being applied.
TextOff ==
    /\ source_text = <<>>
    /\ text_family = "off"
    /\ tpc = "off"
    /\ normalized = <<>>
    /\ renormalized = <<>>
    /\ verdict = NoMsg

\* No pure helper function is being applied.
PureOff ==
    /\ callee = "off"
    /\ argument = <<>>
    /\ outcome = <<>>

\* No ReliabilityContext is in use.
GuardOff ==
    /\ namespace = <<>>
    /\ scopes = <<>>
    /\ left = <<>>

\* time_limit is not in use.
ScopedOff ==
    /\ seconds = 0
    /\ now = 0
    /\ lpc = "off"
    /\ body_kind = "off"
    /\ timer_pc = "off"
    /\ finished = FALSE
    /\ timed_out_set = FALSE
    /\ body_done_at = <<>>
    /\ exit_kind = None

\* No evaluation is being aggregated.
AggregationOff ==
    /\ samples = <<>>
    /\ apc = "off"
    /\ futures = <<>>
    /\ all_results_list = <<>>
    /\ results = <<>>
    /\ total = <<>>
    /\ correct = <<>>
    /\ rows = <<>>

\* No helper or utility is in use.
UtilOff ==
    /\ PureOff
    /\ GuardOff
    /\ ScopedOff
    /\ AggregationOff

\* No completion is being executed.
ChildOff ==
    /\ sandbox_mode = None
    /\ enforce_policy = TRUE
    /\ clippy_required = FALSE
    /\ completion = CHOOSE c \in InputCompletions : c.len = 0
    /\ ppc = "off"
    /\ cpc = "off"
    /\ result_dict = <<>>
    /\ result = <<>>
    /\ ret = <<>>
    /\ spawned = {}
    /\ source_written = FALSE
    /\ cleaned_completion = <<>>
    /\ reached = {}
    /\ raised = <<>>
    /\ timed_out = {}
    /\ child_appends = 0
    /\ infra_origin = {}
    /\ watchdog_killed = FALSE
    /\ lint_outcome = None

PipelineOff == SANDBOX_AVAILABLE = TRUE /\ ChildOff

Init ==
    /\ MonitorOff
    /\ CliOff
    /\ TextOff
    /\ UtilOff
    /\ sandbox_mode \in SandboxModes
    /\ enforce_policy \in BOOLEAN
    /\ clippy_required \in BOOLEAN
    /\ completion \in InputCompletions
    /\ SANDBOX_AVAILABLE \in BOOLEAN
    /\ ppc = "start"
    /\ cpc = "not_started"
    /\ result_dict = <<>>
    /\ result = <<>>
    /\ ret = <<>>
    /\ spawned = {}
    /\ source_written = FALSE
    /\ cleaned_completion = <<>>
    /\ reached = {}
    /\ raised = <<>>
    /\ timed_out = {}
    /\ child_appends = 0
    /\ infra_origin = {}
    /\ watchdog_killed = FALSE
    /\ lint_outcome = None

args == <<sandbox_mode, enforce_policy, clippy_required, completion,
          SANDBOX_AVAILABLE>>

\* rust_check_correctness up to process.start()
StartProcess ==
    /\ ppc = "start"
    /\ ppc' = "joining"
    /\ cpc' = "enter"
    /\ UNCHANGED <<aux, lint_outcome, args, result_dict, result, ret, spawned, source_written,
                   cleaned_completion, reached, raised, timed_out,
                   watchdog_killed,
                   child_appends, infra_origin>>

\* The child dies of an exception that nothing catches: no record is appended.
Crash(at, e) ==
    /\ cpc' = "crashed"
    /\ raised' = <<[at |-> at, type |-> e.type, text |-> e.text]>>

\* result.append(result_dict) followed by leaving the function.
Finish(rd) ==
    /\ result_dict' = rd
    /\ result' = Append(result, rd)
    /\ child_appends' = child_appends + 1
    /\ cpc' = "cleanup"

\* Entering create_tempdir() and building result_dict (lines 1047-1059).
ChildEnter ==
    /\ cpc = "enter"
    /\ \/ /\ result_dict' = InitialResultDict(completion)
          /\ cpc' = "toolchain_check"
          /\ UNCHANGED raised
       \/ /\ \E e \in UnexpectedExcs : Crash("enter", e)
          /\ UNCHANGED result_dict
    /\ UNCHANGED <<aux, lint_outcome, args, ppc, result, ret, spawned, source_written,
                   cleaned_completion, reached, timed_out, watchdog_killed,
                   child_appends, infra_origin>>

\* _check_rustc_available: (available, error message) for each outcome of
\* `rustc --version`; every Exception is caught inside it.
ProbeOutcomes == {"ok", "rc_nonzero", "not_found", "timeout", "error"}

_check_rustc_available(o, text) ==
    CASE o = "ok" -> [available |-> TRUE, error |-> NoMsg]
      [] o = "rc_nonzero" -> [available |-> FALSE, error |-> <<"rustc --version failed">>]
      [] o = "not_found" -> [available |-> FALSE, error |-> <<"rustc not found in PATH">>]
      [] o = "timeout" -> [available |-> FALSE, error |-> <<"rustc version check timed out">>]
      [] o = "error" -> [available |-> FALSE, error |-> <<"rustc check error: ">> \o text]

\* Lines 1061-1067.
ToolchainCheck ==
    /\ cpc = "toolchain_check"
    /\ \/ \E o \in ProbeOutcomes, x \in ExcTexts :
            LET probe == _check_rustc_available(o, <<x>>) IN
            /\ spawned' = IF o \in {"ok", "rc_nonzero", "timeout"}
                          THEN spawned \cup {"probe"} ELSE spawned
            /\ infra_origin' = IF ~probe.available
                               THEN infra_origin \cup {"toolchain_probe"}
                               ELSE infra_origin
            /\ IF ~probe.available
               THEN Finish(Failed(result_dict, "infra_missing_toolchain",
                                  probe.error, <<"failed: ">> \o probe.error))
               ELSE /\ cpc' = "validate"
                    /\ UNCHANGED <<result_dict, result, child_appends>>
            /\ UNCHANGED raised
       \/ /\ \E e \in UnexpectedExcs : e.type = "BaseException" /\ Crash("toolchain_check", e)
          /\ spawned' = spawned \cup {"probe"}
          /\ UNCHANGED <<result_dict, result, child_appends, infra_origin>>
    /\ UNCHANGED <<aux, lint_outcome, args, ppc, ret, source_written, cleaned_completion,
                   reached, timed_out, watchdog_killed>>

\* Validate without the early return: the record is filled in and the run
\* goes on.
ValidateNoReturn ==
    /\ cpc = "validate"
    /\ LET validation_error == _validate_completion(completion) IN
        /\ result_dict' =
              IF validation_error # NoMsg
              THEN Failed(result_dict, "compile_error", validation_error,
                          <<"filtered: ">> \o validation_error)
              ELSE result_dict
        /\ cpc' = "extract"
    /\ UNCHANGED <<aux, lint_outcome, args, ppc, result, ret, spawned, source_written,
                   cleaned_completion, reached, raised, timed_out,
                   child_appends, infra_origin, watchdog_killed>>

\* Lines 1069-1075.
Validate ==
    /\ cpc = "validate"
    /\ \/ LET validation_error == _validate_completion(completion) IN
          /\ IF validation_error # NoMsg
             THEN Finish(Failed(result_dict, "compile_error", validation_error,
                                <<"filtered: ">> \o validation_error))
             ELSE /\ cpc' = "extract"
                  /\ UNCHANGED <<result_dict, result, child_appends>>
          /\ UNCHANGED raised
       \/ /\ \E e \in UnexpectedExcs : Crash("validate", e)
          /\ UNCHANGED <<result_dict, result, child_appends>>
    /\ UNCHANGED <<aux, lint_outcome, args, ppc, ret, spawned, source_written,
                   cleaned_completion, reached, timed_out, watchdog_killed,
                   infra_origin>>

\* Lines 1077-1078.
Extract ==
    /\ cpc = "extract"
    /\ \/ /\ cleaned_completion' = <<_extract_function_body(completion)>>
          /\ cpc' = "policy_check"
          /\ UNCHANGED raised
       \/ /\ \E e \in UnexpectedExcs : Crash("extract", e)
          /\ UNCHANGED cleaned_completion
    /\ UNCHANGED <<aux, lint_outcome, args, ppc, result_dict, result, ret, spawned,
                   source_written, reached, timed_out, watchdog_killed,
                   child_appends, infra_origin>>

\* PolicyCheck with the test of enforce_policy inverted.
PolicyCheckInverted ==
    /\ cpc = "policy_check"
    /\ LET violation == IF ~enforce_policy
                         THEN _sanitize_rust_completion(cleaned_completion[1])
                         ELSE NoMsg IN
        IF violation # NoMsg
        THEN Finish(Failed(result_dict, "compile_error", violation,
                           <<"failed: ">> \o violation))
        ELSE /\ cpc' = "write_source"
             /\ UNCHANGED <<result_dict, result, child_appends>>
    /\ UNCHANGED <<aux, lint_outcome, args, ppc, ret, spawned, source_written,
                   cleaned_completion, reached, raised, timed_out,
                   infra_origin, watchdog_killed>>

\* Lines 1080-1087.
PolicyCheck ==
    /\ cpc = "policy_check"
    /\ \/ LET violation == IF enforce_policy
                           THEN _sanitize_rust_completion(cleaned_completion[1])
                           ELSE NoMsg IN
          /\ IF violation # NoMsg
             THEN Finish(Failed(result_dict, "compile_error", violation,
                                <<"failed: ">> \o violation))
             ELSE /\ cpc' = "write_source"
                  /\ UNCHANGED <<result_dict, result, child_appends>>
          /\ UNCHANGED raised
       \/ /\ enforce_policy
          /\ \E e \in UnexpectedExcs : Crash("policy_check", e)
          /\ UNCHANGED <<result_dict, result, child_appends>>
    /\ UNCHANGED <<aux, lint_outcome, args, ppc, ret, spawned, source_written,
                   cleaned_completion, reached, timed_out, watchdog_killed,
                   infra_origin>>

\* Lines 1089-1101: solution.rs is written from prompt, cleaned completion
\* and test; a missing key or an I/O error raises outside every try block.
WriteSource ==
    /\ cpc = "write_source"
    /\ \/ /\ source_written' = TRUE
          /\ cpc' = "compile"
          /\ UNCHANGED raised
       \/ /\ \E e \in UnexpectedExcs : Crash("write_source", e)
          /\ source_written' \in BOOLEAN
    /\ UNCHANGED <<aux, lint_outcome, args, ppc, result_dict, result, ret, spawned,
                   cleaned_completion, reached, timed_out, watchdog_killed,
                   child_appends, infra_origin>>

\* use_sandbox = SANDBOX_AVAILABLE and effective_mode != "none" (line 1101)
UseSandbox(available, mode) == available /\ mode # "none"

\* Diagnostics a command leaves on its stderr, by exit status; 124 is the
\* status the sandbox wrappers make up for a timeout.
CommandStderr(rc) ==
    IF rc = 124 THEN <<"Command timed out">> ELSE <<"diagnostics">>

\* The handlers of the outer try block (lines 1158-1171).
OuterHandler(rd, out) ==
    IF out.exc.type = "TimeoutExpired"
    THEN IF out.cmd_rustc
         THEN Failed(rd, "compile_timeout",
                     <<"compilation timed out after ", "compile_timeout", "s">>,
                     <<"failed: compile timeout">>)
         ELSE Failed(rd, "test_timeout",
                     <<"test execution timed out after ", "run_timeout", "s">>,
                     <<"failed: test timeout">>)
    ELSE Failed(rd, "runtime_error", out.exc.text, <<"failed: ">> \o out.exc.text)

\* The compile phase (lines 1105-1126) applied to the outcome of
\* _compile_rust_code: the result_dict it leaves and whether the run goes on.
CompilePhase(rd, out, available) ==
    IF out.kind = "raised"
    THEN IF IsSandboxError(available, out.exc)
         THEN [go_on |-> FALSE,
               rd |-> Failed(rd, "infra_missing_toolchain", out.exc.text,
                             <<"failed: sandbox error: ">> \o out.exc.text)]
         ELSE [go_on |-> FALSE, rd |-> OuterHandler(rd, out)]
    ELSE LET rd1 == [rd EXCEPT !.compile_ok = PyBool(out.returncode = 0)] IN
         IF out.returncode # 0
         THEN [go_on |-> FALSE,
               rd |-> Failed(rd1, "compile_error", CommandStderr(out.returncode),
                             <<"failed: ">> \o CommandStderr(out.returncode))]
         ELSE [go_on |-> TRUE, rd |-> rd1]

\* An unexpected exception among the outcomes of a command.
Unexpected(at, out) ==
    IF out.kind = "raised" /\ out.exc.type \in {"Exception", "BaseException"}
    THEN <<[at |-> at, type |-> out.exc.type, text |-> out.exc.text]>>
    ELSE <<>>

Compile ==
    /\ cpc = "compile"
    /\ \E env \in CmdEnvs :
        LET use_sandbox == UseSandbox(SANDBOX_AVAILABLE, sandbox_mode)
            resolved == EffectiveMode(use_sandbox, sandbox_mode, env)
            out == _compile_rust_code(use_sandbox, sandbox_mode, env)
            ph == CompilePhase(result_dict, out, SANDBOX_AVAILABLE)
        IN  /\ PossibleEvent(resolved, env)
            /\ reached' = reached \cup {"compile"}
            /\ spawned' = IF Launched(resolved, env)
                          THEN spawned \cup {"rustc"} ELSE spawned
            /\ timed_out' = IF env.ev = "timeout"
                            THEN timed_out \cup {"compile"} ELSE timed_out
            /\ raised' = Unexpected("compile", out)
            /\ infra_origin' = infra_origin \cup InfraFailures("compile", resolved, env)
            /\ IF ph.go_on
               THEN /\ result_dict' = ph.rd
                    /\ cpc' = "lint"
                    /\ UNCHANGED <<result, child_appends>>
               ELSE Finish(ph.rd)
    /\ UNCHANGED <<aux, lint_outcome, args, ppc, ret, source_written, cleaned_completion,
                   watchdog_killed>>

\* What happens in the lint phase: cargo is missing, clippy passes, fails,
\* fails with an "infra:" diagnostic, times out, or raises an Exception.
LintEvents == {"no_cargo", "ok", "fail", "infra_fail", "timeout", "error"}

\* _run_clippy_phase without the clippy_required flag: the lint is always
\* advisory.
ClippyPhaseAlwaysAdvisory(rd, required, ev, text) ==
    [go_on |-> TRUE,
     rd |-> IF ev = "no_cargo" THEN rd
            ELSE [rd EXCEPT !.clippy_ok = PyBool(ev = "ok")]]

\* _run_clippy_phase (lines 900-961): the result_dict it leaves and its
\* return value (True = continue).
_run_clippy_phase(rd, required, ev, text) ==
    CASE ev = "no_cargo" ->
            IF required
            THEN [go_on |-> FALSE,
                  rd |-> Failed([rd EXCEPT !.clippy_ok = "False"],
                                "infra_missing_linter",
                                <<"cargo not found (required for clippy)">>,
                                <<"failed: cargo not available">>)]
            ELSE [go_on |-> TRUE, rd |-> rd]
      [] ev = "ok" -> [go_on |-> TRUE, rd |-> [rd EXCEPT !.clippy_ok = "True"]]
      [] ev = "fail" ->
            IF required
            THEN [go_on |-> FALSE,
                  rd |-> Failed([rd EXCEPT !.clippy_ok = "False"], "lint_failure",
                                <<"clippy warnings">>,
                                <<"failed: clippy check failed">>)]
            ELSE [go_on |-> TRUE,
                  rd |-> [rd EXCEPT !.clippy_ok = "False",
                                    !.stderr = <<"clippy warnings">>]]
      [] ev = "infra_fail" ->
            IF required
            THEN [go_on |-> FALSE,
                  rd |-> Failed([rd EXCEPT !.clippy_ok = "False"],
                                "infra_missing_linter",
                                <<"infra: failed to create Cargo.toml">>,
                                <<"failed: ", "infra: failed to create Cargo.toml">>)]
            ELSE [go_on |-> TRUE, rd |-> [rd EXCEPT !.clippy_ok = "False"]]
      [] ev = "timeout" ->
            IF required
            THEN [go_on |-> FALSE,
                  rd |-> Failed([rd EXCEPT !.clippy_ok = "False"], "clippy_timeout",
                                <<"clippy check timed out">>,
                                <<"failed: clippy timeout">>)]
            ELSE [go_on |-> TRUE,
                  rd |-> [rd EXCEPT !.clippy_ok = "False",
                                    !.stderr = <<"clippy check timed out (advisory)">>]]
      [] ev = "error" ->
            IF required
            THEN [go_on |-> FALSE,
                  rd |-> Failed([rd EXCEPT !.clippy_ok = "False"],
                                "infra_missing_linter", text,
                                <<"failed: clippy error: ">> \o text)]
            ELSE [go_on |-> TRUE,
                  rd |-> [rd EXCEPT !.clippy_ok = "False", !.stderr = text]]

\* Lines 1128-1134; a BaseException in the phase, or any exception of the
\* binary-size lookup before it, reaches the outer handler.
Lint ==
    /\ cpc = "lint"
    /\ reached' = reached \cup {"lint"}
    /\ \/ \E ev \in LintEvents, x \in ExcTexts :
            LET ph == _run_clippy_phase(result_dict, clippy_required, ev, <<x>>) IN
            /\ spawned' = IF ev \in {"ok", "fail", "timeout"}
                          THEN spawned \cup {"clippy"} ELSE spawned
            /\ timed_out' = IF ev = "timeout"
                            THEN timed_out \cup {"lint"} ELSE timed_out
            /\ raised' = IF ev = "error"
                         THEN <<[at |-> "lint", type |-> "Exception", text |-> <<x>>]>>
                         ELSE raised
            /\ lint_outcome' = ev
            /\ IF ph.go_on
               THEN /\ result_dict' = ph.rd
                    /\ cpc' = "run_tests"
                    /\ UNCHANGED <<result, child_appends>>
               ELSE Finish(ph.rd)
       \/ \E e \in UnexpectedExcs :
            /\ raised' = <<[at |-> "lint", type |-> e.type, text |-> e.text]>>
            /\ Finish(OuterHandler(result_dict, Raised(e.type, e.text, FALSE)))
            /\ lint_outcome' = "raised"
            /\ UNCHANGED <<spawned, timed_out>>
    /\ UNCHANGED <<aux, args, ppc, ret, source_written, cleaned_completion,
                   watchdog_killed,
                   infra_origin>>

\* TestVerdict with `passed` set whatever the exit status.
TestVerdictAlwaysPassed(rd, returncode) ==
    IF returncode = 0
    THEN [rd EXCEPT !.test_ok = "True", !.passed = TRUE, !.result = <<"passed">>]
    ELSE Failed([rd EXCEPT !.test_ok = "False", !.passed = TRUE],
                "assertion_failure", <<"diagnostics">>,
                <<"failed: ", "diagnostics">>)

\* The verdict on a finished test binary (lines 1148-1156).
TestVerdict(rd, returncode) ==
    IF returncode = 0
    THEN [rd EXCEPT !.test_ok = "True", !.passed = TRUE, !.result = <<"passed">>]
    ELSE Failed([rd EXCEPT !.test_ok = "False"], "assertion_failure",
                CommandStderr(returncode),
                <<"failed: ">> \o CommandStderr(returncode))

\* The test phase (lines 1137-1156) applied to the outcome of _run_test_binary.
TestPhase(rd, out, available) ==
    IF out.kind = "raised"
    THEN IF IsSandboxError(available, out.exc)
         THEN Failed(rd, "runtime_error", out.exc.text,
                     <<"failed: sandbox error: ">> \o out.exc.text)
         ELSE OuterHandler(rd, out)
    ELSE TestVerdict(rd, out.returncode)

RunTests ==
    /\ cpc = "run_tests"
    /\ \E env \in CmdEnvs :
        LET use_sandbox == UseSandbox(SANDBOX_AVAILABLE, sandbox_mode)
            resolved == EffectiveMode(use_sandbox, sandbox_mode, env)
            out == _run_test_binary(use_sandbox, sandbox_mode, env)
        IN  /\ PossibleEvent(resolved, env)
            /\ env.ev # "probe_timeout"
            /\ (resolved = "none" => env.ev # "infra")
            /\ reached' = reached \cup {"run"}
            /\ spawned' = IF Launched(resolved, env)
                          THEN spawned \cup {"test"} ELSE spawned
            /\ timed_out' = IF env.ev = "timeout"
                            THEN timed_out \cup {"run"} ELSE timed_out
            /\ raised' = IF Unexpected("run_tests", out) # <<>>
                         THEN Unexpected("run_tests", out) ELSE raised
            /\ infra_origin' = infra_origin \cup InfraFailures("run", resolved, env)
            /\ Finish(TestPhase(result_dict, out, SANDBOX_AVAILABLE))
    /\ UNCHANGED <<aux, lint_outcome, args, ppc, ret, source_written, cleaned_completion,
                   watchdog_killed>>

\* Leaving the with block: the temporary directory is removed and the child
\* process ends.
Cleanup ==
    /\ cpc = "cleanup"
    /\ cpc' = "exited"
    /\ UNCHANGED <<aux, lint_outcome, args, ppc, result_dict, result, ret, spawned, source_written,
                   cleaned_completion, reached, raised, timed_out,
                   watchdog_killed,
                   child_appends, infra_origin>>

\* ------------------------------------------------------------------------
\* The parent: rust_check_correctness
\* ------------------------------------------------------------------------

Alive == {"enter", "toolchain_check", "validate", "extract", "policy_check",
          "write_source", "compile", "lint", "run_tests", "cleanup"}

\* dict.get(key, default)
Get(d, k, default) == IF k \in DOMAIN d THEN d[k] ELSE default

\* The record the parent makes up when the list is empty (lines 1251-1261).
WatchdogRecord(c) ==
    [compile_ok |-> None, test_ok |-> None, error_type |-> "runtime_error",
     stderr |-> <<"process watchdog timeout">>, passed |-> FALSE,
     main_free |-> check_main_free(c),
     result |-> <<"timed out: process watchdog">>]

\* The dict built from result[0] (lines 1263-1283).
ReturnDict(rd, c) ==
    [compile_ok |-> Get(rd, "compile_ok", None),
     test_ok |-> Get(rd, "test_ok", None),
     clippy_ok |-> Get(rd, "clippy_ok", None),
     error_type |-> Get(rd, "error_type", None),
     stderr |-> Get(rd, "stderr", NoMsg),
     passed |-> Get(rd, "passed", FALSE),
     main_free |-> Get(rd, "main_free", check_main_free(c)),
     result |-> Get(rd, "result", NoMsg)]

\* Lines 1251-1283: what is left of rust_check_correctness once the child
\* is dead.
Collect ==
    LET filled == IF result = <<>>
                  THEN Append(result, WatchdogRecord(completion))
                  ELSE result IN
    /\ result' = filled
    /\ ret' = <<ReturnDict(filled[1], completion)>>
    /\ ppc' = "returned"

\* process.join(timeout=watchdog_timeout) returns because the child ended.
JoinReturns ==
    /\ ppc = "joining"
    /\ cpc \in {"exited", "crashed"}
    /\ Collect
    /\ UNCHANGED <<aux, lint_outcome, args, cpc, result_dict, spawned, source_written,
                   cleaned_completion, reached, raised, timed_out,
                   watchdog_killed,
                   child_appends, infra_origin>>

\* WatchdogKill without process.kill(): the parent goes on while the child
\* is still running.
WatchdogNoKill ==
    /\ ppc = "joining"
    /\ cpc \in Alive
    /\ watchdog_killed' = TRUE
    /\ Collect
    /\ UNCHANGED <<aux, lint_outcome, args, cpc, result_dict, spawned, source_written,
                   cleaned_completion, reached, raised, timed_out,
                   child_appends, infra_origin>>

\* The join expires with the child alive: process.kill(), process.join()
\* (lines 1246-1249), then the rest of the function.
WatchdogKill ==
    /\ ppc = "joining"
    /\ cpc \in Alive
    /\ cpc' = "killed"
    /\ watchdog_killed' = TRUE
    /\ Collect
    /\ UNCHANGED <<aux, lint_outcome, args, result_dict, spawned, source_written,
                   cleaned_completion, reached, raised, timed_out,
                   child_appends, infra_origin>>

Next == StartProcess \/ ChildEnter \/ ToolchainCheck \/ Validate \/ Extract
           \/ PolicyCheck \/ WriteSource \/ Compile \/ Lint \/ RunTests
           \/ Cleanup \/ JoinReturns \/ WatchdogKill

Spec == Init /\ [][Next]_vars

\* ------------------------------------------------------------------------
\* ResourceMonitor (resource_monitor.py): callers of acquire_worker and
\* release_worker, each call being the steps of the method's body.
\* ------------------------------------------------------------------------

\* psutil.virtual_memory().percent moves between calls.
MemoryChanges ==
    /\ memory_percent' \in MemoryReadings \ {memory_percent}
    /\ UNCHANGED <<notmonitor, max_workers, _active_workers, _lock, mpc, local,
                   released, disciplined>>

\* `with self._lock` without the lock: the block is entered at once.
LockFreeBroken == TRUE

\* `with self._lock` can be entered.
LockFree == _lock = Unlocked

\* acquire_worker: entering `with self._lock` (line 34).
AcquireLock(t) ==
    /\ mpc[t] = "idle"
    /\ LockFree
    /\ _lock' = t
    /\ mpc' = [mpc EXCEPT ![t] = "acq_locked"]
    /\ UNCHANGED <<notmonitor, max_workers, memory_percent, _active_workers,
                   local, released, disciplined>>

\* AcquireCheck with `>` in the place of `>=`.
AcquireCheckOffByOne(t) ==
    /\ mpc[t] = "acq_locked"
    /\ IF memory_percent > max_memory_percent \/ _active_workers > max_workers
       THEN /\ mpc' = [mpc EXCEPT ![t] = "idle"]
            /\ _lock' = Unlocked
            /\ UNCHANGED local
       ELSE /\ mpc' = [mpc EXCEPT ![t] = "acq_write"]
            /\ local' = [local EXCEPT ![t] = _active_workers]
            /\ UNCHANGED _lock
    /\ UNCHANGED <<notmonitor, max_workers, memory_percent, _active_workers,
                   released, disciplined>>

\* acquire_worker: the two tests (lines 35-38), each returning False and
\* leaving the block, and the read of `self._active_workers += 1`.
AcquireCheck(t) ==
    /\ mpc[t] = "acq_locked"
    /\ IF memory_percent > max_memory_percent \/ _active_workers >= max_workers
       THEN /\ mpc' = [mpc EXCEPT ![t] = "idle"]
            /\ _lock' = Unlocked
            /\ UNCHANGED local
       ELSE /\ mpc' = [mpc EXCEPT ![t] = "acq_write"]
            /\ local' = [local EXCEPT ![t] = _active_workers]
            /\ UNCHANGED _lock
    /\ UNCHANGED <<notmonitor, max_workers, memory_percent, _active_workers,
                   released, disciplined>>

\* acquire_worker: the write of `self._active_workers += 1`, `return True`
\* and leaving the block (lines 39-40).
AcquireWrite(t) ==
    /\ mpc[t] = "acq_write"
    /\ _active_workers' = local[t] + 1
    /\ _lock' = Unlocked
    /\ mpc' = [mpc EXCEPT ![t] = "holding"]
    /\ local' = [local EXCEPT ![t] = 0]
    /\ UNCHANGED <<notmonitor, max_workers, memory_percent, released,
                   disciplined>>

\* release_worker: entering `with self._lock` (line 44); an undisciplined
\* caller also releases a slot it does not hold.
ReleaseLock(t) ==
    /\ \/ mpc[t] = "holding"
       \/ ~disciplined /\ mpc[t] = "idle"
    /\ LockFree
    /\ _lock' = t
    /\ mpc' = [mpc EXCEPT ![t] = "rel_locked"]
    /\ UNCHANGED <<notmonitor, max_workers, memory_percent, _active_workers,
                   local, released, disciplined>>

\* release_worker: the read of self._active_workers (line 45).
ReleaseRead(t) ==
    /\ mpc[t] = "rel_locked"
    /\ local' = [local EXCEPT ![t] = _active_workers]
    /\ mpc' = [mpc EXCEPT ![t] = "rel_write"]
    /\ UNCHANGED <<notmonitor, max_workers, memory_percent, _active_workers,
                   _lock, released, disciplined>>

\* release_worker: the assignment of max(0, ... - 1) and leaving the block.
ReleaseWrite(t) ==
    /\ mpc[t] = "rel_write"
    /\ _active_workers' = IF local[t] = 0 THEN 0 ELSE local[t] - 1
    /\ _lock' = Unlocked
    /\ mpc' = [mpc EXCEPT ![t] = "idle"]
    /\ local' = [local EXCEPT ![t] = 0]
    /\ released' = released \cup {t}
    /\ UNCHANGED <<notmonitor, max_workers, memory_percent, disciplined>>

MonitorInit ==
    /\ PipelineOff
    /\ CliOff
    /\ TextOff
    /\ UtilOff
    /\ MonitorConstructed
    /\ disciplined \in BOOLEAN

MonitorNext ==
    \/ MemoryChanges
    \/ \E t \in Callers : AcquireLock(t)
    \/ \E t \in Callers : AcquireCheck(t)
    \/ \E t \in Callers : AcquireWrite(t)
    \/ \E t \in Callers : ReleaseLock(t)
    \/ \E t \in Callers : ReleaseRead(t)
    \/ \E t \in Callers : ReleaseWrite(t)

MonitorSpec == MonitorInit /\ [][MonitorNext]_vars

\* ------------------------------------------------------------------------
\* Sandbox mode resolution and dispatch: an evaluation run from the request
\* for a sandbox mode to the commands launched for a completion.
\* ------------------------------------------------------------------------

\* What the operator answers when asked (interactive runs only).
OperatorChoices == {"install_ok", "install_failed", "abort", "proceed"}

ResolvedTo(m) == [kind |-> "mode", mode |-> m, exc |-> None]

ResolveRaises(e) == [kind |-> "raised", mode |-> None, exc |-> e]

\* resolve_sandbox_mode(sandbox_mode, allow_no_sandbox, non_interactive),
\* `available` being the outcome of the probe for firejail.
resolve_sandbox_mode(req, allow, nonint, available, choice) ==
    CASE req = "firejail" ->
            IF available THEN ResolvedTo("firejail")
            ELSE ResolveRaises("SandboxError")
      [] req = "none" -> ResolvedTo("none")
      [] req = None ->
            IF available THEN ResolvedTo("firejail")
            ELSE IF nonint
                 THEN IF allow THEN ResolvedTo("none")
                      ELSE ResolveRaises("SandboxError")
            ELSE (CASE choice = "install_ok" -> ResolvedTo("firejail")
                    [] choice = "install_failed" -> ResolveRaises("SandboxError")
                    [] choice = "abort" -> ResolveRaises("SystemExit")
                    [] choice = "proceed" -> ResolvedTo("none"))
      [] OTHER -> ResolveRaises("SandboxError")

\* Whether a command launched under a resolved mode is confined.
Confinement(resolved) == IF resolved = "none" THEN "unconfined" ELSE "confined"

\* entry_point (evaluate_functional_correctness.py, lines 58-91): the mode
\* is resolved before any completion is evaluated; an exception of the
\* resolution ends the run, a failed import downgrades to "none".
EntryPoint ==
    /\ flow = "cli"
    /\ spc = "start"
    /\ IF ~SANDBOX_AVAILABLE
       THEN /\ resolved_mode' = "none"
            /\ spc' = "resolved"
            /\ UNCHANGED <<sb_error, tools>>
       ELSE \E choice \in OperatorChoices :
              LET r == resolve_sandbox_mode(requested, allow_no_sandbox,
                                            non_interactive, tools.firejail,
                                            choice) IN
              /\ resolved_mode' = r.mode
              /\ sb_error' = r.exc
              /\ spc' = IF r.kind = "mode" THEN "resolved" ELSE "failed"
              /\ tools' = IF requested = None /\ ~tools.firejail
                              /\ ~non_interactive /\ choice = "install_ok"
                           THEN [tools EXCEPT !.firejail = TRUE]
                           ELSE tools
    /\ UNCHANGED <<notcli, requested, allow_no_sandbox, non_interactive, flow,
                   ran>>

\* check_correctness / rust_check_correctness called with the caller's
\* sandbox_mode, which goes to the child unchanged (line 1242).
LibraryCall ==
    /\ flow = "library"
    /\ spc = "start"
    /\ resolved_mode' = requested
    /\ spc' = "resolved"
    /\ UNCHANGED <<notcli, requested, allow_no_sandbox, non_interactive, tools,
                   flow, sb_error, ran>>

\* The environments of a command on this host.
HostEnvs ==
    {env \in CmdEnvs : env.docker = tools.docker /\ env.firejail = tools.firejail}

\* The compile command of a completion (lines 1100-1109).
CompileCommand ==
    /\ spc = "resolved"
    /\ \E env \in HostEnvs :
        LET use_sandbox == UseSandbox(SANDBOX_AVAILABLE, resolved_mode)
            resolved == EffectiveMode(use_sandbox, resolved_mode, env)
            out == _compile_rust_code(use_sandbox, resolved_mode, env)
        IN  /\ PossibleEvent(resolved, env)
            /\ ran' = IF Launched(resolved, env)
                      THEN ran \cup {<<"rustc", Confinement(resolved)>>}
                      ELSE ran
            /\ sb_error' = out.exc.type
            /\ spc' = IF out.kind = "completed" /\ out.returncode = 0
                      THEN "compiled" ELSE "done"
    /\ UNCHANGED <<notcli, requested, allow_no_sandbox, non_interactive, tools,
                   flow, resolved_mode>>

\* The test command of a completion (lines 1137-1140).
TestCommand ==
    /\ spc = "compiled"
    /\ \E env \in HostEnvs :
        LET use_sandbox == UseSandbox(SANDBOX_AVAILABLE, resolved_mode)
            resolved == EffectiveMode(use_sandbox, resolved_mode, env)
            out == _run_test_binary(use_sandbox, resolved_mode, env)
        IN  /\ PossibleEvent(resolved, env)
            /\ env.ev # "probe_timeout"
            /\ (resolved = "none" => env.ev # "infra")
            /\ ran' = IF Launched(resolved, env)
                      THEN ran \cup {<<"test", Confinement(resolved)>>}
                      ELSE ran
            /\ sb_error' = out.exc.type
            /\ spc' = "done"
    /\ UNCHANGED <<notcli, requested, allow_no_sandbox, non_interactive, tools,
                   flow, resolved_mode>>

SandboxInit ==
    /\ ChildOff
    /\ MonitorOff
    /\ TextOff
    /\ UtilOff
    /\ SANDBOX_AVAILABLE \in BOOLEAN
    /\ requested \in SandboxModes
    /\ tools \in [docker : BOOLEAN, firejail : BOOLEAN]
    /\ flow \in {"cli", "library"}
    /\ allow_no_sandbox \in (IF flow = "cli" THEN BOOLEAN ELSE {FALSE})
    /\ non_interactive \in (IF flow = "cli" THEN BOOLEAN ELSE {TRUE})
    /\ spc = "start"
    /\ resolved_mode = None
    /\ sb_error = None
    /\ ran = {}

SandboxNext == EntryPoint \/ LibraryCall \/ CompileCommand \/ TestCommand

SandboxSpec == SandboxInit /\ [][SandboxNext]_vars

\* ---------------------------------------------------------------------
\* Text level: _normalize_unicode and _sanitize_rust_completion on
\* character sequences.  An ASCII character is the one-character string
\* of itself; every other character has an ASCII name ("sc_a" is the
\* Latin small capital A, "cy_te" the Cyrillic small Te, "CY_TE" the
\* Cyrillic capital Te, "e_acute" the precomposed e with acute,
\* "comb_acute" the combining acute accent, "lig_fi" the fi ligature,
\* "cjk" an ideograph).  A text is a sequence of characters.
\* ---------------------------------------------------------------------

\* HOMOGLYPH_MAP, every entry of the table.
HOMOGLYPH_MAP ==
    ("sc_a" :> "a") @@ ("sc_b" :> "b") @@ ("sc_c" :> "c") @@ ("sc_d" :> "d") @@
    ("sc_e" :> "e") @@ ("sc_f" :> "f") @@ ("sc_g" :> "g") @@ ("sc_h" :> "h") @@
    ("sc_i" :> "i") @@ ("sc_j" :> "j") @@ ("sc_k" :> "k") @@ ("sc_l" :> "l") @@
    ("sc_m" :> "m") @@ ("sc_n" :> "n") @@ ("sc_o" :> "o") @@ ("sc_p" :> "p") @@
    ("sc_r" :> "r") @@ ("sc_s" :> "s") @@ ("sc_t" :> "t") @@ ("sc_u" :> "u") @@
    ("sc_v" :> "v") @@ ("sc_w" :> "w") @@ ("sc_y" :> "y") @@ ("sc_z" :> "z") @@
    ("cy_a" :> "a") @@ ("cy_ie" :> "e") @@ ("cy_o" :> "o") @@ ("cy_er" :> "p") @@
    ("cy_es" :> "c") @@ ("cy_ha" :> "x") @@ ("cy_u" :> "y") @@ ("CY_A" :> "A") @@
    ("CY_VE" :> "B") @@ ("CY_IE" :> "E") @@ ("CY_KA" :> "K") @@ ("CY_EM" :> "M") @@
    ("CY_EN" :> "H") @@ ("CY_O" :> "O") @@ ("CY_ER" :> "P") @@ ("CY_ES" :> "C") @@
    ("CY_TE" :> "T") @@ ("CY_HA" :> "X") @@ ("CY_CHE" :> "Y")

\* Cyrillic small letters that have no entry in HOMOGLYPH_MAP.
UnmappedCyrillic ==
    {"cy_ve", "cy_ka", "cy_em", "cy_en", "cy_te", "cy_che"}

\* The characters outside ASCII.
NonAscii ==
    DOMAIN HOMOGLYPH_MAP \cup UnmappedCyrillic
        \cup {"e_acute", "E_ACUTE", "comb_acute", "lig_fi", "cjk"}

\* str.lower(): ASCII capitals and the capitals outside ASCII; the
\* small capitals are lower-case letters and stay.
LowerTable ==
    ("A" :> "a") @@ ("B" :> "b") @@ ("C" :> "c") @@ ("D" :> "d") @@
    ("E" :> "e") @@ ("F" :> "f") @@ ("G" :> "g") @@ ("H" :> "h") @@
    ("I" :> "i") @@ ("J" :> "j") @@ ("K" :> "k") @@ ("L" :> "l") @@
    ("M" :> "m") @@ ("N" :> "n") @@ ("O" :> "o") @@ ("P" :> "p") @@
    ("Q" :> "q") @@ ("R" :> "r") @@ ("S" :> "s") @@ ("T" :> "t") @@
    ("U" :> "u") @@ ("V" :> "v") @@ ("W" :> "w") @@ ("X" :> "x") @@
    ("Y" :> "y") @@ ("Z" :> "z") @@ ("CY_A" :> "cy_a") @@ ("CY_VE" :> "cy_ve") @@
    ("CY_IE" :> "cy_ie") @@ ("CY_KA" :> "cy_ka") @@ ("CY_EM" :> "cy_em") @@ ("CY_EN" :> "cy_en") @@
    ("CY_O" :> "cy_o") @@ ("CY_ER" :> "cy_er") @@ ("CY_ES" :> "cy_es") @@ ("CY_TE" :> "cy_te") @@
    ("CY_HA" :> "cy_ha") @@ ("CY_CHE" :> "cy_che") @@ ("E_ACUTE" :> "e_acute")

lower_char(c) ==
    IF c \in DOMAIN LowerTable THEN LowerTable[c] ELSE c

lower(text) ==
    [i \in 1..Len(text) |-> lower_char(text[i])]

\* unicodedata.normalize("NFKD", ...): compatibility decomposition.
DecompositionTable ==
    ("e_acute" :> <<"e", "comb_acute">>) @@
    ("E_ACUTE" :> <<"E", "comb_acute">>) @@
    ("lig_fi" :> <<"f", "i">>)

RECURSIVE NFKD(_)
NFKD(text) ==
    IF text = <<>> THEN <<>>
    ELSE (IF Head(text) \in DOMAIN DecompositionTable
          THEN DecompositionTable[Head(text)]
          ELSE <<Head(text)>>) \o NFKD(Tail(text))

IsAscii(c) ==
    c \notin NonAscii

\* .encode("ascii", "ignore").decode("ascii") without the filter.
EncodeAsciiKeepAll(text) ==
    text

\* .encode("ascii", "ignore").decode("ascii")
EncodeAsciiIgnore(text) ==
    SelectSeq(text, IsAscii)

MapHomoglyphs(text) ==
    [i \in 1..Len(text) |->
        IF text[i] \in DOMAIN HOMOGLYPH_MAP THEN HOMOGLYPH_MAP[text[i]]
        ELSE text[i]]

_normalize_unicode(t) ==
    EncodeAsciiIgnore(NFKD(MapHomoglyphs(t)))

\* ---- matching helpers (what `in`, re.sub and re.search compute) ----

\* pattern occupies text[i .. i + Len(pattern) - 1]
StartsAt(pattern, t, i) ==
    /\ i + Len(pattern) <= Len(t) + 1
    /\ SubSeq(t, i, i + Len(pattern) - 1) = pattern

\* `stripped in pattern`: the containment test with its operands swapped.
ContainsReversed(pattern, t) ==
    \E i \in 1..Len(pattern) : StartsAt(t, pattern, i)

\* `pattern in text`
Contains(pattern, t) ==
    \E i \in 1..Len(t) : StartsAt(pattern, t, i)

\* least j >= i with t[j] in chars, Len(t) + 1 when there is none
RECURSIVE FirstAt(_, _, _)
FirstAt(t, i, chars) ==
    IF i > Len(t) THEN Len(t) + 1
    ELSE IF t[i] \in chars THEN i
    ELSE FirstAt(t, i + 1, chars)

\* least j >= i where pattern starts, 0 when there is none
RECURSIVE FirstOccurrence(_, _, _)
FirstOccurrence(pattern, t, i) ==
    IF i > Len(t) THEN 0
    ELSE IF StartsAt(pattern, t, i) THEN i
    ELSE FirstOccurrence(pattern, t, i + 1)

\* `#*` from position i: the position after the run of hashes
RECURSIVE SkipHashes(_, _)
SkipHashes(t, i) ==
    IF i <= Len(t) /\ t[i] = "#" THEN SkipHashes(t, i + 1) ELSE i

\* `(?:[^q\\]|\\.)*q` from position j: the position of the closing
\* quote q, 0 when the literal does not close (`.` is not a newline).
RECURSIVE LiteralEnd(_, _, _)
LiteralEnd(t, j, q) ==
    IF j > Len(t) THEN 0
    ELSE IF t[j] = q THEN j
    ELSE IF t[j] = "\\"
         THEN IF j + 1 <= Len(t) /\ t[j + 1] # "\n"
              THEN LiteralEnd(t, j + 2, q)
              ELSE 0
    ELSE LiteralEnd(t, j + 1, q)

\* ---- _strip_comments_and_strings, one re.sub after another ----

\* re.sub(r'//[^\n]*', '', code)
RECURSIVE StripLineComments(_, _)
StripLineComments(t, i) ==
    IF i > Len(t) THEN <<>>
    ELSE IF StartsAt(<<"/", "/">>, t, i)
         THEN StripLineComments(t, FirstAt(t, i + 2, {"\n"}))
    ELSE <<t[i]>> \o StripLineComments(t, i + 1)

\* re.sub(r'/\*.*?\*/', '', code, flags=re.DOTALL)
RECURSIVE StripBlockComments(_, _)
StripBlockComments(t, i) ==
    IF i > Len(t) THEN <<>>
    ELSE LET close == IF StartsAt(<<"/", "*">>, t, i)
                      THEN FirstOccurrence(<<"*", "/">>, t, i + 2)
                      ELSE 0
         IN  IF close # 0 THEN StripBlockComments(t, close + 2)
             ELSE <<t[i]>> \o StripBlockComments(t, i + 1)

\* re.sub(r'r#*"(?:[^"\\]|\\.)*"#*', '""', code)
RECURSIVE StripRawStrings(_, _)
StripRawStrings(t, i) ==
    IF i > Len(t) THEN <<>>
    ELSE LET open == SkipHashes(t, i + 1)
             close == IF t[i] = "r" /\ open <= Len(t) /\ t[open] = "\""
                      THEN LiteralEnd(t, open + 1, "\"")
                      ELSE 0
         IN  IF close # 0
             THEN <<"\"", "\"">>
                      \o StripRawStrings(t, SkipHashes(t, close + 1))
             ELSE <<t[i]>> \o StripRawStrings(t, i + 1)

\* re.sub(r'"(?:[^"\\]|\\.)*"', '""', code) and the same with '
RECURSIVE StripQuoted(_, _, _)
StripQuoted(t, i, q) ==
    IF i > Len(t) THEN <<>>
    ELSE LET close == IF t[i] = q THEN LiteralEnd(t, i + 1, q) ELSE 0
         IN  IF close # 0
             THEN <<q, q>> \o StripQuoted(t, close + 1, q)
             ELSE <<t[i]>> \o StripQuoted(t, i + 1, q)

_strip_comments_and_strings(code) ==
    LET no_line == StripLineComments(code, 1)
        no_block == StripBlockComments(no_line, 1)
        no_raw == StripRawStrings(no_block, 1)
        no_string == StripQuoted(no_raw, 1, "\"")
    IN  StripQuoted(no_string, 1, "'")

\* ---- _sanitize_rust_completion on texts ----

\* DISALLOWED_COMPLETION_PATTERNS: entries of the list, in list order.
DISALLOWED_COMPLETION_PATTERNS ==
    << <<"s", "t", "d", ":", ":", "f", "s">>,
       <<"s", "t", "d", ":", ":", "p", "r", "o", "c", "e", "s", "s">>,
       <<"s", "t", "d", ":", ":", "p", "r", "o", "c", "e", "s", "s",
          ":", ":", "C", "o", "m", "m", "a", "n", "d">>,
       <<"u", "n", "s", "a", "f", "e">>,
       <<"l", "i", "b", "c">> >>

\* The loop over the deny list: the first entry found in stripped, as a
\* one-element sequence, or <<>> when the loop ends without a return.
FirstDisallowed(stripped) ==
    LET hits == {k \in DOMAIN DISALLOWED_COMPLETION_PATTERNS :
                    Contains(lower(DISALLOWED_COMPLETION_PATTERNS[k]),
                             stripped)}
    IN  IF hits = {} THEN <<>>
        ELSE <<DISALLOWED_COMPLETION_PATTERNS[
                   CHOOSE k \in hits : \A m \in hits : k <= m]>>

SAFE_DERIVE_MACROS ==
    { <<"D", "e", "b", "u", "g">>, <<"C", "l", "o", "n", "e">>,
      <<"C", "o", "p", "y">>, <<"P", "a", "r", "t", "i", "a", "l", "E", "q">>,
      <<"E", "q">>, <<"P", "a", "r", "t", "i", "a", "l", "O", "r", "d">>,
      <<"O", "r", "d">>, <<"H", "a", "s", "h">>,
      <<"D", "e", "f", "a", "u", "l", "t">>,
      <<"D", "i", "s", "p", "l", "a", "y">> }

dangerous_keywords ==
    { <<"u", "n", "s", "a", "f", "e">>,
      <<"a", "r", "b", "i", "t", "r", "a", "r", "y">>,
      <<"d", "e", "s", "e", "r", "i", "a", "l", "i", "z", "e">>,
      <<"s", "e", "r", "i", "a", "l", "i", "z", "e">> }

WhiteSpace ==
    {" ", "\n", "\t", "\r"}

\* str.split(sep)
RECURSIVE split(_, _)
split(t, sep) ==
    LET k == FirstOccurrence(sep, t, 1)
    IN  IF k = 0 THEN <<t>>
        ELSE <<SubSeq(t, 1, k - 1)>>
                 \o split(SubSeq(t, k + Len(sep), Len(t)), sep)

RECURSIVE lstrip(_)
lstrip(t) ==
    IF t # <<>> /\ Head(t) \in WhiteSpace THEN lstrip(Tail(t)) ELSE t

RECURSIVE rstrip(_)
rstrip(t) ==
    IF t # <<>> /\ t[Len(t)] \in WhiteSpace
    THEN rstrip(SubSeq(t, 1, Len(t) - 1))
    ELSE t

\* str.strip()
strip(t) ==
    rstrip(lstrip(t))

\* derive.split('::')[-1].strip() of d.strip()
derive_name(d) ==
    LET segments == split(strip(d), <<":", ":">>)
    IN  strip(segments[Len(segments)])

\* `\s*` from position i: the position after the run of white space
RECURSIVE SkipWhiteSpace(_, _)
SkipWhiteSpace(t, i) ==
    IF i <= Len(t) /\ t[i] \in WhiteSpace
    THEN SkipWhiteSpace(t, i + 1)
    ELSE i

\* re.finditer(r"#\[derive\s*\(([^)]+)\)", stripped): group 1 of every
\* match from position i on, left to right.
RECURSIVE DeriveGroups(_, _)
DeriveGroups(stripped, i) ==
    IF i > Len(stripped) THEN <<>>
    ELSE LET head == <<"#", "[", "d", "e", "r", "i", "v", "e">>
             open == IF StartsAt(head, stripped, i)
                     THEN SkipWhiteSpace(stripped, i + Len(head))
                     ELSE Len(stripped) + 1
             close == IF open <= Len(stripped) /\ stripped[open] = "("
                      THEN FirstAt(stripped, open + 1, {")"})
                      ELSE Len(stripped) + 1
         IN  IF close <= Len(stripped) /\ close > open + 1
             THEN <<SubSeq(stripped, open + 1, close - 1)>>
                      \o DeriveGroups(stripped, close + 1)
             ELSE DeriveGroups(stripped, i + 1)

\* The derive check: the first derive name that is not in the safe list
\* and contains a dangerous keyword, or <<>>.
RECURSIVE FirstDangerous(_)
FirstDangerous(names) ==
    IF names = <<>> THEN <<>>
    ELSE LET name == derive_name(Head(names))
         IN  IF /\ name # <<>>
                /\ name \notin SAFE_DERIVE_MACROS
                /\ \E kw \in dangerous_keywords : Contains(kw, lower(name))
             THEN <<name>>
             ELSE FirstDangerous(Tail(names))

RECURSIVE DeriveViolation(_)
DeriveViolation(groups) ==
    IF groups = <<>> THEN <<>>
    ELSE LET found == FirstDangerous(split(Head(groups), <<",">>))
         IN  IF found # <<>> THEN found
             ELSE DeriveViolation(Tail(groups))

RawKeywords ==
    { <<"u", "n", "s", "a", "f", "e">>,
      <<"s", "t", "d", ":", ":", "f", "s">>,
      <<"s", "t", "d", ":", ":", "p", "r", "o", "c", "e", "s", "s">> }

\* re.search(r"r\".*?(unsafe|std::fs|std::process).*?\"#*", ...): the
\* raw-string search without `#*` after the r.
RawStringSearchNoHashes(original) ==
    LET folded == lower(original)
    IN  \E i \in DOMAIN original :
            /\ folded[i] = "r"
            /\ i + 1 <= Len(original)
            /\ original[i + 1] = "\""
            /\ \E kw \in RawKeywords :
                   \E k \in (i + 2)..Len(original) :
                       /\ StartsAt(kw, folded, k)
                       /\ \E m \in (k + Len(kw))..Len(original) :
                              original[m] = "\""

\* re.search(r"r#*\".*?(unsafe|std::fs|std::process).*?\"#*",
\*           completion, re.IGNORECASE | re.DOTALL)
RawStringSearch(original) ==
    LET folded == lower(original)
    IN  \E i \in DOMAIN original :
            LET open == SkipHashes(original, i + 1)
            IN  /\ folded[i] = "r"
                /\ open <= Len(original)
                /\ original[open] = "\""
                /\ \E kw \in RawKeywords :
                       \E k \in (open + 1)..Len(original) :
                           /\ StartsAt(kw, folded, k)
                           /\ \E m \in (k + Len(kw))..Len(original) :
                                  original[m] = "\""

_sanitize_rust_completion_text(original) ==
    LET normalized_text == _normalize_unicode(lower(original))
        stripped == _strip_comments_and_strings(normalized_text)
        pattern == FirstDisallowed(stripped)
        derive == DeriveViolation(DeriveGroups(stripped, 1))
    IN  IF pattern # <<>>
        THEN <<"disallowed usage of ", pattern[1]>>
        ELSE IF derive # <<>>
        THEN <<"disallowed derive macro: ", derive[1]>>
        ELSE IF RawStringSearch(original)
        THEN <<"disallowed pattern in raw string">>
        ELSE NoMsg

\* ---- the texts the functions are applied to ----

MaxLen == 3
MaxSafeLen == 4
MaxHashes == 2

\* every text over an alphabet, up to a length
TextsOver(alphabet, n) ==
    UNION {[1..k -> alphabet] : k \in 0..n}

\* ASCII letters, a digit, a space and characters outside ASCII of each
\* kind: mapped, unmapped, decomposing and dropped.
UnicodeAlphabet ==
    {"a", "Z", "7", " ", "sc_f", "cy_o", "CY_TE", "cy_te",
     "e_acute", "lig_fi", "cjk"}

\* characters of [a-z0-9_ ]
SafeAlphabet ==
    {"l", "i", "b", "c", "7", "_", " "}

RECURSIVE Hashes(_)
Hashes(k) ==
    IF k = 0 THEN <<>> ELSE <<"#">> \o Hashes(k - 1)

RawKeywordSpellings ==
    RawKeywords \cup
        { <<"U", "N", "S", "A", "F", "E">>,
          <<"S", "t", "d", ":", ":", "F", "s">>,
          <<"S", "T", "D", ":", ":", "P", "R", "O", "C", "E", "S", "S">> }

InnerPads ==
    {<<>>, <<" ">>, <<"\n">>, <<"\\">>, <<":", ":", "x">>}

OuterBefore ==
    {<<>>, <<"l", "e", "t", " ", "s", " ", "=", " ">>, <<"f", "(">>}

OuterAfter ==
    {<<>>, <<";">>, <<".", "l", "e", "n", "(", ")">>}

\* code around a raw string literal r#..#"..keyword.."#..#
RawLiteralTexts ==
    {before \o <<"r">> \o Hashes(k) \o <<"\"">> \o a \o kw \o b
         \o <<"\"">> \o Hashes(k) \o after :
        before \in OuterBefore, k \in 0..MaxHashes, a \in InnerPads,
        kw \in RawKeywordSpellings, b \in InnerPads, after \in OuterAfter}

\* the letter itself and the keys of HOMOGLYPH_MAP that stand for it
LookAlikes(c) ==
    {c} \cup {h \in DOMAIN HOMOGLYPH_MAP : lower_char(HOMOGLYPH_MAP[h]) = c}

RECURSIVE Spellings(_)
Spellings(token) ==
    IF token = <<>> THEN {<<>>}
    ELSE {<<c>> \o rest :
             c \in LookAlikes(Head(token)), rest \in Spellings(Tail(token))}

HomoglyphTokens ==
    { <<"s", "t", "d", ":", ":", "f", "s">>,
      <<"l", "i", "b", "c">>,
      <<"u", "n", "s", "a", "f", "e">> }

CodeContexts ==
    { [before |-> <<>>, after |-> <<>>],
      [before |-> <<"{", " ">>, after |-> <<";", " ", "}">>],
      [before |-> <<"/", "*", " ", "c", " ", "*", "/", " ">>,
       after |-> <<" ", "/", "/", " ", "c">>] }

\* code with a spelling of a deny-listed token outside comments and
\* strings
HomoglyphTexts ==
    {ctx.before \o spelling \o ctx.after :
        ctx \in CodeContexts,
        spelling \in UNION {Spellings(token) : token \in HomoglyphTokens}}

DeriveTexts ==
    { <<"#", "[", "d", "e", "r", "i", "v", "e", "(", "D", "e", "b",
        "u", "g", ",", " ", "C", "l", "o", "n", "e", ")", "]">>,
      <<"#", "[", "d", "e", "r", "i", "v", "e", "(", "s", "e", "r",
        "d", "e", ":", ":", "S", "e", "r", "i", "a", "l", "i",
        "z", "e", ")", "]">>,
      <<"#", "[", "d", "e", "r", "i", "v", "e", " ", "(", "C", "o",
        "p", "y", ",", "\n", " ", "A", "r", "b", "i", "t", "r",
        "a", "r", "y", ")", "]">>,
      <<"#", "[", "d", "e", "r", "i", "v", "e", "(", ")", "]", " ",
        "#", "[", "d", "e", "r", "i", "v", "e", "(", "E", "q",
        ")", "]", " ", "#", "[", "d", "e", "r", "i", "v", "e",
        "(", "M", "y", "D", "e", "s", "e", "r", "i", "a", "l",
        "i", "z", "e", ")", "]">>,
      <<"/", "/", " ", "#", "[", "d", "e", "r", "i", "v", "e", "(",
        "A", "r", "b", "i", "t", "r", "a", "r", "y", ")", "]">> }

Families ==
    {"unicode", "safe", "raw", "homoglyph", "derive"}

TextInputs(f) ==
    CASE f = "unicode" -> TextsOver(UnicodeAlphabet, MaxLen)
      [] f = "safe" -> TextsOver(SafeAlphabet, MaxSafeLen)
      [] f = "raw" -> RawLiteralTexts
      [] f = "homoglyph" -> HomoglyphTexts
      [] f = "derive" -> DeriveTexts

TextInit ==
    /\ PipelineOff
    /\ MonitorOff
    /\ CliOff
    /\ UtilOff
    /\ text_family \in Families
    /\ source_text \in TextInputs(text_family)
    /\ tpc = "input"
    /\ normalized = <<>>
    /\ renormalized = <<>>
    /\ verdict = NoMsg

\* normalized = _normalize_unicode(source_text)
Normalize ==
    /\ tpc = "input"
    /\ normalized' = _normalize_unicode(source_text)
    /\ tpc' = "normalized"
    /\ UNCHANGED <<nottext, text_family, source_text, renormalized, verdict>>

\* _normalize_unicode(normalized)
NormalizeAgain ==
    /\ tpc = "normalized"
    /\ renormalized' = _normalize_unicode(normalized)
    /\ tpc' = "renormalized"
    /\ UNCHANGED <<nottext, text_family, source_text, normalized, verdict>>

\* result = _sanitize_rust_completion(text)
Sanitize ==
    /\ tpc = "input"
    /\ verdict' = _sanitize_rust_completion_text(source_text)
    /\ tpc' = "sanitized"
    /\ UNCHANGED <<nottext, text_family, source_text, normalized, renormalized>>

TextNext ==
    \/ Normalize
    \/ NormalizeAgain
    \/ Sanitize

TextSpec ==
    TextInit /\ [][TextNext]_vars

\* ------------------------------------------------------------------------
\* Pure helpers: _validate_completion, estimate_pass_at_k,
\* _remove_main_functions
\* ------------------------------------------------------------------------

MaxSamples == 6
MaxLines == 4

\* estimator(n, c, k) of estimate_pass_at_k, in exact fractions:
\* 1.0 - prod(1.0 - k / arange(n - c + 1, n + 1)) with its early return
\* taken one case too often.
estimatorEarlyOne(n, c, k) ==
    IF n - c <= k THEN [num |-> 1, den |-> 1]
    ELSE LET RECURSIVE prod(_)
             prod(i) == IF i > n THEN [num |-> 1, den |-> 1]
                        ELSE LET rest == prod(i + 1)
                             IN  [num |-> (i - k) * rest.num,
                                  den |-> i * rest.den]
             p == prod(n - c + 1)
         IN  [num |-> p.den - p.num, den |-> p.den]

\* estimator(n, c, k) of estimate_pass_at_k, in exact fractions:
\* 1.0 if n - c < k, else 1.0 - prod(1.0 - k / arange(n - c + 1, n + 1)),
\* where 1.0 - k / i is (i - k) / i.
estimator(n, c, k) ==
    IF n - c < k THEN [num |-> 1, den |-> 1]
    ELSE LET RECURSIVE prod(_)
             prod(i) == IF i > n THEN [num |-> 1, den |-> 1]
                        ELSE LET rest == prod(i + 1)
                             IN  [num |-> (i - k) * rest.num,
                                  den |-> i * rest.den]
             p == prod(n - c + 1)
         IN  [num |-> p.den - p.num, den |-> p.den]

\* The lines _remove_main_functions is tried on, by what it looks at:
\* main is the match of ^fn\s+main\s*\([^)]*\)\s*(?:->[^{]*)?\s*\{ on the
\* stripped line, braces is line.count("{") - line.count("}").
LineShape ==
    ("fn main() {" :> [main |-> TRUE, braces |-> 1]) @@
    ("fn main() { run(); }" :> [main |-> TRUE, braces |-> 0]) @@
    ("fn f() {" :> [main |-> FALSE, braces |-> 1]) @@
    ("}" :> [main |-> FALSE, braces |-> -1]) @@
    ("x;" :> [main |-> FALSE, braces |-> 0]) @@
    ("" :> [main |-> FALSE, braces |-> 0])

\* The while loop of _remove_main_functions from lines[i] on: the lines
\* appended to cleaned_lines.
RECURSIVE RemoveMainLoop(_, _, _, _)
RemoveMainLoop(lines, i, in_main, brace_count) ==
    IF i > Len(lines) THEN <<>>
    ELSE IF LineShape[lines[i]].main
    THEN LET RECURSIVE inner(_, _)
             inner(j, count) ==
                 IF j <= Len(lines) /\ count > 0
                 THEN inner(j + 1, count + LineShape[lines[j]].braces)
                 ELSE <<j, count>>
             after == inner(i + 1, 1)
         IN  RemoveMainLoop(lines, after[1], TRUE, after[2])
    ELSE IF in_main
    THEN LET count == brace_count + LineShape[lines[i]].braces
         IN  RemoveMainLoop(lines, i + 1, count > 0, count)
    ELSE <<lines[i]>> \o RemoveMainLoop(lines, i + 1, FALSE, brace_count)

\* "\n".join(cleaned_lines).strip(), as lines: blank lines at either end
\* go.
StripBlankLines(lines) ==
    LET RECURSIVE front(_)
        front(t) == IF t # <<>> /\ Head(t) = "" THEN front(Tail(t)) ELSE t
        RECURSIVE back(_)
        back(t) == IF t # <<>> /\ t[Len(t)] = ""
                   THEN back(SubSeq(t, 1, Len(t) - 1))
                   ELSE t
    IN  back(front(lines))

_remove_main_functions(lines) ==
    StripBlankLines(RemoveMainLoop(lines, 1, FALSE, 0))

\* The arguments each function is applied to: completions around every
\* limit of _validate_completion (a NUL, a newline and a character
\* without an encoding each take one character); sample counts up to
\* MaxSamples; texts of up to MaxLines lines.
PureInputs(f) ==
    CASE f = "_validate_completion" ->
           { a \in [len : {0, 1, 2, MAX_COMPLETION_LINES + 3,
                           MAX_COMPLETION_LENGTH, MAX_COMPLETION_LENGTH + 1},
                    newlines : {0, 1, MAX_COMPLETION_LINES,
                                MAX_COMPLETION_LINES + 1},
                    nul : BOOLEAN, encodable : BOOLEAN] :
               a.newlines + (IF a.nul THEN 1 ELSE 0)
                   + (IF a.encodable THEN 0 ELSE 1) <= a.len }
      [] f = "estimate_pass_at_k" ->
           { a \in [num_samples : {<<n>> : n \in 1..MaxSamples},
                    num_correct : {<<c>> : c \in 0..MaxSamples},
                    k : 1..MaxSamples] :
               /\ a.num_correct[1] <= a.num_samples[1]
               /\ a.k <= a.num_samples[1] }
      [] f = "_remove_main_functions" ->
           TextsOver(DOMAIN LineShape, MaxLines)

PureInit ==
    /\ PipelineOff
    /\ MonitorOff
    /\ CliOff
    /\ TextOff
    /\ GuardOff
    /\ ScopedOff
    /\ AggregationOff
    /\ callee \in {"_validate_completion", "estimate_pass_at_k",
                   "_remove_main_functions"}
    /\ argument \in PureInputs(callee)
    /\ outcome = <<>>

\* error = _validate_completion(completion)
ApplyValidate ==
    /\ callee = "_validate_completion"
    /\ outcome = <<>>
    /\ outcome' = <<_validate_completion(argument)>>
    /\ UNCHANGED <<notpure, callee, argument>>

\* estimate_pass_at_k(num_samples, num_correct, k): one estimator value
\* for each pair of the two lists.
ApplyEstimate ==
    /\ callee = "estimate_pass_at_k"
    /\ outcome = <<>>
    /\ outcome' = <<[i \in DOMAIN argument.num_correct |->
                       estimator(argument.num_samples[i],
                                 argument.num_correct[i], argument.k)]>>
    /\ UNCHANGED <<notpure, callee, argument>>

\* cleaned = _remove_main_functions(text)
ApplyRemoveMain ==
    /\ callee = "_remove_main_functions"
    /\ outcome = <<>>
    /\ outcome' = <<_remove_main_functions(argument)>>
    /\ UNCHANGED <<notpure, callee, argument>>

PureNext ==
    \/ ApplyValidate
    \/ ApplyEstimate
    \/ ApplyRemoveMain

PureSpec == PureInit /\ [][PureNext]_vars

\* ------------------------------------------------------------------------
\* ReliabilityContext (rust_execution.py, lines 713-849) around
\* reliability_guard (execution.py, lines 103-187)
\* ------------------------------------------------------------------------

\* Scopes entered one inside the other.
MaxDepth == 2

\* Attributes that reliability_guard sets to None and __enter__ saves with
\* getattr(module, name, None) or __builtins__.get("help"): some of each
\* module.
GuardedAttributes ==
    {"os.chdir", "os.lchflags", "shutil.rmtree", "subprocess.Popen",
     "builtins.exit", "builtins.help"}

\* sys.modules entries that reliability_guard sets to None.
GuardedModules == {"sys.modules.psutil", "sys.modules.ipdb"}

\* What a name can be bound to before any scope is entered: os.lchflags
\* exists on BSD and macOS only, exit and help are put into builtins by the
\* site module, a module may be loaded, not loaded, or blocked with None.
HostValues(n) ==
    CASE n \in {"os.lchflags", "builtins.exit", "builtins.help"} ->
            {"absent", "function"}
      [] n \in GuardedModules -> {"absent", "module", "None"}
      [] OTHER -> {"function"}

\* The originals __enter__ stores (lines 738-801).
SaveOriginals(ns) ==
    [n \in GuardedAttributes \cup GuardedModules |->
        IF ns[n] # "absent" THEN ns[n]
        ELSE IF n \in GuardedModules THEN "_NOT_PRESENT" ELSE "None"]

\* reliability_guard: every guarded name is bound to None.
reliability_guard(ns) == [n \in DOMAIN ns |-> "None"]

\* What __exit__ puts back (lines 811-849).
RestoreOriginals(ns, originals) ==
    [n \in DOMAIN ns |->
        IF n \in GuardedModules
        THEN IF originals[n] = "_NOT_PRESENT" THEN "absent" ELSE originals[n]
        ELSE IF originals[n] # "None" THEN originals[n] ELSE ns[n]]

ReliabilityInit ==
    /\ PipelineOff
    /\ MonitorOff
    /\ CliOff
    /\ TextOff
    /\ PureOff
    /\ ScopedOff
    /\ AggregationOff
    /\ namespace \in {ns \in [GuardedAttributes \cup GuardedModules ->
                                {"absent", "function", "module", "None"}] :
                          \A n \in DOMAIN ns : ns[n] \in HostValues(n)}
    /\ scopes = <<>>
    /\ left = <<>>

\* with ReliabilityContext(): __enter__ saves the originals and calls
\* reliability_guard.
__enter__ ==
    /\ Len(scopes) < MaxDepth
    /\ scopes' = Append(scopes, [originals |-> SaveOriginals(namespace),
                                 entered_with |-> namespace])
    /\ namespace' = reliability_guard(namespace)
    /\ left' = <<>>
    /\ UNCHANGED notguard

\* The body of the innermost scope ends, normally or by an exception:
\* __exit__(*args) does the same for both and lets the exception go on.
__exit__ ==
    /\ scopes # <<>>
    /\ \E path \in {"normal", "exception"} :
        LET scope == scopes[Len(scopes)] IN
        /\ namespace' = RestoreOriginals(namespace, scope.originals)
        /\ left' = <<[entered_with |-> scope.entered_with, path |-> path]>>
    /\ scopes' = SubSeq(scopes, 1, Len(scopes) - 1)
    /\ UNCHANGED notguard

ReliabilityNext == __enter__ \/ __exit__

ReliabilitySpec == ReliabilityInit /\ [][ReliabilityNext]_vars

\* ------------------------------------------------------------------------
\* time_limit (execution.py, lines 52-70): the thread that runs the with
\* block and the threading.Timer thread, over a clock of whole ticks
\* ------------------------------------------------------------------------

\* The largest limit, and the time the clock is followed for.
MaxSeconds == 2
MaxTime == 4

\* How the body of the with block ends: it returns (or falls off its end),
\* raises an exception of its own, or never ends.
BodyKinds == {"returns", "raises", "hangs"}

LimitInit ==
    /\ PipelineOff
    /\ MonitorOff
    /\ CliOff
    /\ TextOff
    /\ PureOff
    /\ GuardOff
    /\ AggregationOff
    /\ seconds \in 1..MaxSeconds
    /\ body_kind \in BodyKinds
    /\ now = 0
    /\ lpc = "start"
    /\ timer_pc = "not_started"
    /\ finished = FALSE
    /\ timed_out_set = FALSE
    /\ body_done_at = <<>>
    /\ exit_kind = None

\* Time passes, counted from timer.start().
Tick ==
    /\ lpc # "start"
    /\ now < MaxTime
    /\ now' = now + 1
    /\ UNCHANGED <<notscoped, seconds, lpc, body_kind, timer_pc, finished,
                   timed_out_set, body_done_at, exit_kind>>

\* timer = threading.Timer(seconds, timeout_handler); timer.start(); the
\* body begins (lines 61-64).
StartTimer ==
    /\ lpc = "start"
    /\ timer_pc' = "waiting"
    /\ lpc' = "body"
    /\ UNCHANGED <<notscoped, seconds, now, body_kind, finished,
                   timed_out_set, body_done_at, exit_kind>>

\* Timer.run: self.finished.wait(self.interval) returns, because the
\* interval has elapsed or because cancel() has set the event.
TimerWakes ==
    /\ timer_pc = "waiting"
    /\ now >= seconds \/ finished
    /\ timer_pc' = "woken"
    /\ UNCHANGED <<notscoped, seconds, now, lpc, body_kind, finished,
                   timed_out_set, body_done_at, exit_kind>>

\* Timer.run: `if not self.finished.is_set()` calls timeout_handler, which
\* sets the event (lines 58-59); then the thread ends.
TimerFires ==
    /\ timer_pc = "woken"
    /\ timer_pc' = "dead"
    /\ timed_out_set' = (timed_out_set \/ ~finished)
    /\ finished' = TRUE
    /\ UNCHANGED <<notscoped, seconds, now, lpc, body_kind, body_done_at,
                   exit_kind>>

\* The body of the with block ends; nothing interrupts it.
BodyEnds ==
    /\ lpc = "body"
    /\ body_kind # "hangs"
    /\ body_done_at' = <<now>>
    /\ lpc' = "finally"
    /\ UNCHANGED <<notscoped, seconds, now, body_kind, timer_pc, finished,
                   timed_out_set, exit_kind>>

\* finally: timer.cancel() (lines 65-67); an exception of the body goes on
\* from here and leaves the with statement.
Finally ==
    /\ lpc = "finally"
    /\ finished' = TRUE
    /\ IF body_kind = "raises"
       THEN lpc' = "exited" /\ exit_kind' = "BodyException"
       ELSE lpc' = "check" /\ UNCHANGED exit_kind
    /\ UNCHANGED <<notscoped, seconds, now, body_kind, timer_pc,
                   timed_out_set, body_done_at>>

\* if timed_out.is_set(): raise TimeoutException("Timed out!") (lines 69-70)
CheckEvent ==
    /\ lpc = "check"
    /\ exit_kind' = IF timed_out_set THEN "TimeoutException" ELSE "normal"
    /\ lpc' = "exited"
    /\ UNCHANGED <<notscoped, seconds, now, body_kind, timer_pc, finished,
                   timed_out_set, body_done_at>>

LimitNext ==
    Tick \/ StartTimer \/ TimerWakes \/ TimerFires \/ BodyEnds \/ Finally
        \/ CheckEvent

LimitSpec == LimitInit /\ [][LimitNext]_vars

\* ------------------------------------------------------------------------
\* evaluate_functional_correctness (evaluation.py, lines 72-279): the
\* samples are submitted in input order, the futures complete in any order,
\* and the results are aggregated
\* ------------------------------------------------------------------------

\* The largest number of samples in the sample file.
MaxBatch == 3

\* read_problems(problem_file): the task ids, in sorted order.
Problems == <<"t1", "t2">>

\* The task ids a sample can name: those of the problems and one of none.
SampleTasks == {"t1", "t2", "t9"}

\* The loop of lines 115-135 from sample i on; counter is completion_id.
RECURSIVE Submit(_, _, _, _)
Submit(input, i, counter, futs) ==
    IF i > Len(input)
    THEN [error |-> None, futures |-> futs, completion_id |-> counter]
    ELSE LET task_id == input[i].task_id IN
         IF \A p \in DOMAIN Problems : Problems[p] # task_id
         THEN [error |-> "KeyError", futures |-> futs, completion_id |-> counter]
         ELSE Submit(input, i + 1, [counter EXCEPT ![task_id] = @ + 1],
                     Append(futs, [task_id |-> task_id,
                                   completion_id |-> counter[task_id],
                                   sample |-> i]))

\* What check_correctness returns for a submitted sample (rust_execution.py
\* lines 1269-1283): task_id and completion_id as they were passed in;
\* `sample` records which input line the result belongs to.
FutureResult(input, f) ==
    [task_id |-> f.task_id, completion_id |-> f.completion_id,
     passed |-> input[f.sample].passes, sample |-> f.sample]

\* results[result["task_id"]].append((result["completion_id"], result)) on
\* a defaultdict(list), whose keys keep their order of insertion (line 147).
AppendResult(res, r) ==
    IF \E i \in DOMAIN res : res[i].task_id = r.task_id
    THEN [i \in DOMAIN res |->
            IF res[i].task_id = r.task_id
            THEN [res[i] EXCEPT !.items = Append(@, <<r.completion_id, r>>)]
            ELSE res[i]]
    ELSE Append(res, [task_id |-> r.task_id,
                      items |-> << <<r.completion_id, r>> >>])

\* list.sort() left out: the pairs stay in the order of arrival.
KeepArrivalOrder(items) == items

\* list.sort() on (completion_id, result) pairs (lines 179 and 239): the
\* completion ids of one task are distinct, so they alone decide the order.
RECURSIVE SortByCompletionId(_)
SortByCompletionId(items) ==
    IF items = <<>> THEN <<>>
    ELSE LET m == CHOOSE i \in DOMAIN items :
                      \A j \in DOMAIN items : items[i][1] <= items[j][1]
             rest == [j \in 1..(Len(items) - 1) |->
                         IF j < m THEN items[j] ELSE items[j + 1]]
         IN  <<items[m]>> \o SortByCompletionId(rest)

\* results.get(task_id, []) (line 238)
ResultsGet(res, task_id) ==
    IF \E i \in DOMAIN res : res[i].task_id = task_id
    THEN res[CHOOSE i \in DOMAIN res : res[i].task_id = task_id].items
    ELSE <<>>

\* The rows combine_results yields for one task (lines 240-275): the i-th
\* sample of the task with the i-th result of the sorted list, or with a
\* placeholder when there is none.
TaskRows(input, task_id, task_results) ==
    LET OfTask(j) == input[j].task_id = task_id
        task_samples == SelectSeq([j \in 1..Len(input) |-> j], OfTask)
    IN  [i \in 1..Len(task_samples) |->
            IF i <= Len(task_results)
            THEN [sample |-> task_samples[i], task_id |-> task_id,
                  passed |-> task_results[i][2].passed,
                  result |-> IF task_results[i][2].passed
                             THEN "passed" ELSE "failed",
                  completion_id |-> task_results[i][1],
                  result_of |-> task_results[i][2].sample]
            ELSE [sample |-> task_samples[i], task_id |-> task_id,
                  passed |-> FALSE, result |-> "filtered: missing result",
                  completion_id |-> -1, result_of |-> 0]]

AggregationInit ==
    /\ PipelineOff
    /\ MonitorOff
    /\ CliOff
    /\ TextOff
    /\ PureOff
    /\ GuardOff
    /\ ScopedOff
    /\ samples \in UNION {[1..n -> [task_id : SampleTasks, passes : BOOLEAN]] :
                             n \in 0..MaxBatch}
    /\ apc = "reading"
    /\ futures = <<>>
    /\ all_results_list = <<>>
    /\ results = <<>>
    /\ total = <<>>
    /\ correct = <<>>
    /\ rows = <<>>

\* Lines 109-141: every sample is submitted, then the problems without a
\* sample are looked for.
ReadSamples ==
    /\ apc = "reading"
    /\ LET r == Submit(samples, 1,
                       [p \in {Problems[i] : i \in DOMAIN Problems} |-> 0],
                       <<>>)
       IN  /\ futures' = r.futures
           /\ apc' = IF r.error # None THEN r.error
                     ELSE IF Cardinality({p \in DOMAIN r.completion_id :
                                            r.completion_id[p] > 0})
                                # Len(Problems)
                          THEN "EvaluationError"
                          ELSE "running"
    /\ UNCHANGED <<notaggregation, samples, all_results_list, results, total,
                   correct, rows>>

\* One turn of `for future in as_completed(futures)` (lines 145-148): any
\* future that has not been handed out yet may be the next to complete.
AsCompleted ==
    /\ apc = "running"
    /\ \E k \in DOMAIN futures :
        LET r == FutureResult(samples, futures[k]) IN
        /\ \A i \in DOMAIN all_results_list : all_results_list[i].sample # k
        /\ results' = AppendResult(results, r)
        /\ all_results_list' = Append(all_results_list, r)
    /\ UNCHANGED <<notaggregation, samples, apc, futures, total, correct, rows>>

\* future.result() re-raises what check_correctness raised (line 146).
FutureRaises ==
    /\ apc = "running"
    /\ Len(all_results_list) < Len(futures)
    /\ apc' = "Exception"
    /\ UNCHANGED <<notaggregation, samples, futures, all_results_list, results,
                   total, correct, rows>>

\* Lines 176-184: each list of results is sorted and counted.
CalculatePassAtK ==
    /\ apc = "running"
    /\ Len(all_results_list) = Len(futures)
    /\ LET sorted == [i \in DOMAIN results |->
                        [results[i] EXCEPT !.items = SortByCompletionId(@)]]
       IN  /\ results' = sorted
           /\ total' = [i \in DOMAIN sorted |-> Len(sorted[i].items)]
           /\ correct' = [i \in DOMAIN sorted |->
                            Cardinality({j \in DOMAIN sorted[i].items :
                                            sorted[i].items[j][2].passed})]
    /\ apc' = "combine"
    /\ UNCHANGED <<notaggregation, samples, futures, all_results_list, rows>>

\* write_jsonl(out_file, combine_results()) (lines 228-278): the samples
\* are read again and grouped by task, the tasks taken in sorted order.
combine_results ==
    /\ apc = "combine"
    /\ LET RECURSIVE Rows(_)
           Rows(p) ==
               IF p > Len(Problems) THEN <<>>
               ELSE TaskRows(samples, Problems[p],
                             SortByCompletionId(ResultsGet(results, Problems[p])))
                        \o Rows(p + 1)
       IN  rows' = Rows(1)
    /\ apc' = "written"
    /\ UNCHANGED <<notaggregation, samples, futures, all_results_list, results,
                   total, correct>>

AggregationNext ==
    ReadSamples \/ AsCompleted \/ FutureRaises \/ CalculatePassAtK
        \/ combine_results

AggregationSpec == AggregationInit /\ [][AggregationNext]_vars

\* ------------------------------------------------------------------------
\* Properties
\* ------------------------------------------------------------------------

Returned == ppc = "returned"

WatchdogMessage == <<"process watchdog timeout">>

\* The child has ended by itself, through an exit path of _rust_unsafe_execute.
ChildEnded == cpc \in {"exited", "crashed"}

\* The policy engine has a violation for the cleaned body of this completion.
PolicyViolation ==
    /\ enforce_policy
    /\ cleaned_completion # <<>>
    /\ _sanitize_rust_completion(cleaned_completion[1]) # NoMsg

\* The child has appended the record of a validation rejection.
ValidationRejected ==
    /\ child_appends = 1
    /\ result[1].error_type = "compile_error"
    /\ result[1].stderr = _validate_completion(completion)

\* C1: on every exit path of _rust_unsafe_execute the child has appended
\* exactly one record, and rust_check_correctness returns that record.
C1_ExactlyOneRecord ==
    /\ (ChildEnded => child_appends = 1)
    /\ (Returned /\ ChildEnded => ret[1] = ReturnDict(result_dict, completion))

\* C2: in every returned record, passed implies compile_ok and test_ok true
\* and error_type null.
C2_PassedImpliesClean ==
    Returned /\ ret[1].passed =>
        /\ ret[1].compile_ok = "True"
        /\ ret[1].test_ok = "True"
        /\ ret[1].error_type = None

C2_Witness == Returned /\ ret[1].passed

\* C3: an unexpected exception raised at any step of the pipeline ends the
\* completion with error_type runtime_error and the exception's text as the
\* recorded stderr.
C3_ExceptionIsRuntimeError ==
    Returned /\ ~watchdog_killed /\ raised # <<>> =>
        /\ ret[1].error_type = "runtime_error"
        /\ ret[1].stderr = raised[1].text

\* C4 as stated: whenever the watchdog had to kill the child, the returned
\* record is the runtime_error record with the process-watchdog message.
C4_KilledMeansWatchdogRecord ==
    Returned /\ watchdog_killed =>
        /\ ret[1].error_type = "runtime_error"
        /\ ret[1].stderr = WatchdogMessage

\* C4 (amended): a child alive at the expiry of the join is killed; the
\* returned record is the process-watchdog runtime_error record when the
\* child had appended nothing, and the child's own record when it had; the
\* child is never alive when rust_check_correctness returns.
C4_WatchdogKillsChild ==
    Returned =>
        /\ cpc \notin Alive
        /\ (watchdog_killed =>
              /\ cpc = "killed"
              /\ (child_appends = 0 =>
                    /\ ret[1].error_type = "runtime_error"
                    /\ ret[1].stderr = WatchdogMessage
                    /\ ~ret[1].passed)
              /\ (child_appends > 0 =>
                    ret[1] = ReturnDict(result_dict, completion)))

C4_Witness ==
    Returned /\ watchdog_killed /\ child_appends = 0
             /\ ret[1].stderr = WatchdogMessage

\* C5: a returned record carries the process-watchdog message only when the
\* watchdog killed the child, never for a child that ended by itself.
C5_WatchdogMessageOnlyWhenKilled ==
    Returned /\ ret[1].stderr = WatchdogMessage => watchdog_killed

\* C6: under every sandbox mode (the sandbox module being importable, and
\* the child left to finish) a compile that exceeds its budget ends the run
\* with compile_timeout and no test run, and a test run that exceeds its
\* budget ends the run with test_timeout.
C6_TimeoutClassifiedByPhase ==
    Returned /\ ~watchdog_killed /\ child_appends = 1 /\ SANDBOX_AVAILABLE =>
        /\ ("compile" \in timed_out =>
              ret[1].error_type = "compile_timeout" /\ "run" \notin reached)
        /\ ("run" \in timed_out => ret[1].error_type = "test_timeout")

\* C7: with policy enforcement on, a violation found by
\* _sanitize_rust_completion ends the run with compile_error and compile_ok
\* null; the source file is not written and compile, lint and test are never
\* started.
C7_PolicyGatesCompiler ==
    PolicyViolation =>
        /\ ~source_written
        /\ reached = {}
        /\ spawned \subseteq {"probe"}
        /\ cpc \notin {"write_source", "compile", "lint", "run_tests"}
        /\ (child_appends > 0 =>
              /\ child_appends = 1
              /\ result[1].error_type = "compile_error"
              /\ result[1].compile_ok = None)
        /\ (Returned /\ ~watchdog_killed /\ cpc = "exited" =>
              /\ ret[1].error_type = "compile_error"
              /\ ret[1].compile_ok = None)

C7_Witness ==
    /\ PolicyViolation
    /\ Returned
    /\ cpc = "exited"
    /\ ret[1].error_type = "compile_error"

\* C8: the record of a completion rejected by the policy engine has a
\* result string that starts with "filtered:".
C8_PolicyRejectionIsFiltered ==
    PolicyViolation /\ Returned /\ child_appends = 1 =>
        Head(ret[1].result) = "filtered: "

C10_InfraFailuresAreInfra ==
    Returned /\ ~watchdog_killed /\ child_appends = 1 /\ infra_origin # {} =>
        ret[1].error_type \in {"infra_missing_toolchain", "infra_missing_linter"}

\* The outcomes of the lint phase that C11 names: a lint failure, a lint
\* timeout, a missing cargo, and an Exception raised by the lint command.
LintTroubles == {"fail", "infra_fail", "timeout", "no_cargo", "error"}

\* C11: with clippy_required false no outcome of the lint phase (failure,
\* timeout, missing cargo, exception of the lint command) ends the run or
\* sets error_type, and the test phase follows; with clippy_required true a
\* lint failure ends the run with lint_failure and a missing lint tool with
\* infra_missing_linter, and the test phase is never entered.
C11_LintAdvisoryUnlessRequired ==
    /\ (~clippy_required /\ lint_outcome \in LintTroubles =>
          \/ cpc = "run_tests" /\ result_dict.error_type = None
                               /\ child_appends = 0
          \/ "run" \in reached
          \/ cpc = "killed" /\ child_appends = 0)
    /\ (clippy_required /\ lint_outcome \in {"fail", "no_cargo"} =>
          /\ "run" \notin reached
          /\ "test" \notin spawned
          /\ cpc \in {"cleanup", "exited", "killed"}
          /\ child_appends = 1
          /\ result[1].clippy_ok = "False"
          /\ result[1].error_type =
                IF lint_outcome = "fail" THEN "lint_failure"
                ELSE "infra_missing_linter")

C11_Witness ==
    /\ ~clippy_required
    /\ lint_outcome = "fail"
    /\ Returned
    /\ ret[1].clippy_ok = "False"
    /\ ret[1].passed

\* C12: the main_free field of the record of a completion that went through
\* the normalizer is check_main_free of the cleaned completion; it is true
\* for a completion whose only fn main is a trailing block the normalizer
\* removes.
C12_MainFreeOfCleaned ==
    Returned /\ child_appends = 1 /\ cleaned_completion # <<>> =>
        /\ ret[1].main_free = check_main_free(cleaned_completion[1])
        /\ (completion.main_removed => ret[1].main_free)

\* The callers that hold a slot acquire_worker gave them.
Holders == {t \in Callers : mpc[t] \in {"holding", "rel_locked", "rel_write"}}

\* C13: when every release_worker follows a successful acquire_worker of
\* the same caller, then under any interleaving of the callers
\* _active_workers is zero once all releases have completed.
C13_AdmissionBalance ==
    disciplined /\ (\A t \in Callers : mpc[t] = "idle") => _active_workers = 0

C13_Witness ==
    /\ disciplined
    /\ released = Callers
    /\ \A t \in Callers : mpc[t] = "idle"
    /\ _active_workers = 0

\* A step in which caller t leaves acquire_worker with False.
AcquireRefused(t) == mpc[t] = "acq_locked" /\ mpc'[t] = "idle"

\* The steps in which caller t goes through acquire_worker to `return True`.
AcquireAdmitted(t) == mpc[t] = "acq_locked" /\ mpc'[t] = "acq_write"

AcquireReturnsTrue(t) == mpc[t] = "acq_write" /\ mpc'[t] = "holding"

\* C14: acquire_worker returns True only when the memory reading is not
\* above max_memory_percent and _active_workers < max_workers, and then
\* raises _active_workers by exactly one; otherwise it returns False and
\* leaves the count unchanged; 0 <= _active_workers <= max_workers always.
C14_AcquireContract ==
    /\ [](_active_workers \in 0..max_workers)
    /\ [][\A t \in Callers :
            /\ (AcquireAdmitted(t) =>
                  /\ memory_percent <= max_memory_percent
                  /\ _active_workers < max_workers
                  /\ _active_workers' = _active_workers)
            /\ (AcquireReturnsTrue(t) =>
                  /\ _active_workers = local[t]
                  /\ _active_workers' = _active_workers + 1)
            /\ (AcquireRefused(t) =>
                  /\ \/ memory_percent > max_memory_percent
                     \/ _active_workers >= max_workers
                  /\ _active_workers' = _active_workers)]_vars

C14_Witness ==
    /\ _active_workers = max_workers
    /\ max_workers = MaxWorkers
    /\ Cardinality(Holders) = MaxWorkers
    /\ \E t \in Callers : mpc[t] = "idle" /\ t \notin released

\* The confinement tool asked for by name is not installed.
FirejailRequestedButMissing ==
    requested = "firejail" /\ ~tools.firejail /\ SANDBOX_AVAILABLE

AutoWithoutTool ==
    /\ requested = None
    /\ ~tools.docker /\ ~tools.firejail
    /\ non_interactive
    /\ SANDBOX_AVAILABLE

\* C16: with the mode auto/unset, no confinement tool available and a
\* non-interactive run, resolution fails with SandboxError unless the
\* allow-unconfined opt-in is set; only with the opt-in does it resolve to
\* "none" and is a command run unconfined.
C16_AutoFailsWithoutOptIn ==
    AutoWithoutTool =>
        /\ (flow = "cli" /\ spc # "start" =>
              IF allow_no_sandbox
              THEN resolved_mode = "none"
              ELSE spc = "failed" /\ sb_error = "SandboxError")
        /\ ((\E r \in ran : r[2] = "unconfined") => allow_no_sandbox)

\* ------------------------------------------------------------------------
\* Text-level properties
\* ------------------------------------------------------------------------

AllAscii(t) == \A i \in DOMAIN t : IsAscii(t[i])

\* C17: _normalize_unicode is idempotent: normalising its output again
\* gives the same text; its output is pure ASCII, and an all-ASCII
\* input comes back unchanged.
C17_NormalizeIdempotent ==
    /\ tpc \in {"normalized", "renormalized"} =>
           /\ AllAscii(normalized)
           /\ AllAscii(source_text) => normalized = source_text
    /\ tpc = "renormalized" => renormalized = normalized

\* A text with characters outside ASCII has been normalised twice and
\* something of it is left.
C17_Witness ==
    /\ tpc = "renormalized"
    /\ ~AllAscii(source_text)
    /\ Len(normalized) >= 2
    /\ normalized # source_text

\* the characters of [a-z0-9_ ]
SafeCharacters ==
    {"a", "b", "c", "d", "e", "f", "g", "h", "i", "j", "k", "l", "m",
     "n", "o", "p", "q", "r", "s", "t", "u", "v", "w", "x", "y", "z",
     "0", "1", "2", "3", "4", "5", "6", "7", "8", "9", "_", " "}

IsSafeText(t) == \A i \in DOMAIN t : t[i] \in SafeCharacters

\* the entries of the deny list that [a-z0-9_ ] can spell (the longer
\* ones, such as "unsafe fn", contain one of these)
SafeDenyWords ==
    { <<"r", "e", "q", "w", "e", "s", "t">>, <<"u", "r", "e", "q">>,
      <<"h", "y", "p", "e", "r">>, <<"u", "n", "s", "a", "f", "e">>,
      <<"e", "x", "t", "e", "r", "n">>, <<"l", "i", "b", "c">>,
      <<"w", "i", "n", "a", "p", "i">>,
      <<"p", "r", "o", "c", "_", "m", "a", "c", "r", "o">> }

HasDenyWord(t) ==
    \E w \in SafeDenyWords : \E i \in DOMAIN t :
        /\ i + Len(w) <= Len(t) + 1
        /\ SubSeq(t, i, i + Len(w) - 1) = w

C19_RawLiteralFlagged ==
    tpc = "sanitized" /\ text_family = "raw" => verdict # NoMsg

\* A raw literal with # delimiters was blanked by the stripping, so the
\* deny-list scan found nothing, and the raw-string search caught it.
C19_Witness ==
    /\ tpc = "sanitized"
    /\ text_family = "raw"
    /\ \E i \in DOMAIN source_text : source_text[i] = "#"
    /\ FirstDisallowed(_strip_comments_and_strings(
           _normalize_unicode(lower(source_text)))) = <<>>
    /\ verdict = <<"disallowed pattern in raw string">>

\* C20: code with a deny-listed token spelled with look-alikes of the
\* homoglyph table, outside comments and strings, gets a violation.
C20_HomoglyphSpellingFlagged ==
    tpc = "sanitized" /\ text_family = "homoglyph" => verdict # NoMsg

\* ------------------------------------------------------------------------
\* Further properties of the ResourceMonitor
\* ------------------------------------------------------------------------

\* C30: under any interleaving of acquire_worker and release_worker,
\* release_worker calls of callers without a slot included, the callers
\* that hold a slot (acquire_worker returned True to them and they have not
\* called release_worker since) are never more than max_workers.
C30_HoldersWithinLimit ==
    Cardinality({t \in Callers : mpc[t] = "holding"}) <= max_workers

\* ------------------------------------------------------------------------
\* Properties of the pure helpers
\* ------------------------------------------------------------------------

\* The binomial coefficient C(n, k).
RECURSIVE Binomial(_, _)
Binomial(n, k) ==
    IF k = 0 THEN 1
    ELSE IF n = 0 THEN 0
    ELSE Binomial(n - 1, k - 1) + Binomial(n - 1, k)

\* x <= y for fractions with positive denominators.
FractionLeq(x, y) == x.num * y.den <= y.num * x.den

\* C22: for 0 <= c <= n and 1 <= k <= n, estimate_pass_at_k returns
\* 1 - C(n-c, k)/C(n, k), a value in [0,1] that is 1 when c = n, 0 when
\* c = 0, and does not decrease when k or c grows.
C22_PassAtKEstimator ==
    callee = "estimate_pass_at_k" /\ outcome # <<>> =>
        LET n == argument.num_samples[1]
            c == argument.num_correct[1]
            k == argument.k
            v == outcome[1][1]
        IN  /\ Len(outcome[1]) = 1
            /\ v.den > 0
            /\ v.num * Binomial(n, k)
                   = v.den * (Binomial(n, k) - Binomial(n - c, k))
            /\ 0 <= v.num /\ v.num <= v.den
            /\ (c = n => v.num = v.den)
            /\ (c = 0 => v.num = 0)
            /\ (k < n => FractionLeq(v, estimator(n, c, k + 1)))
            /\ (c < n => FractionLeq(v, estimator(n, c + 1, k)))

\* An estimate strictly between 0 and 1 has been returned, for several
\* correct samples and k above 1.
C22_Witness ==
    /\ callee = "estimate_pass_at_k"
    /\ outcome # <<>>
    /\ argument.num_correct[1] >= 2
    /\ argument.k >= 2
    /\ 0 < outcome[1][1].num
    /\ outcome[1][1].num < outcome[1][1].den

\* The lines outside every standalone main block: a block runs from a
\* line that starts with `fn main(...) {` through the line on which its
\* brace depth is back at zero.
RECURSIVE LinesOutsideMain(_, _, _)
LinesOutsideMain(lines, i, depth) ==
    IF i > Len(lines) THEN <<>>
    ELSE LET shape == LineShape[lines[i]]
             deeper == IF depth = 0 THEN shape.braces
                       ELSE depth + shape.braces
         IN  IF depth > 0 \/ shape.main
             THEN LinesOutsideMain(lines, i + 1,
                                   IF deeper > 0 THEN deeper ELSE 0)
             ELSE <<lines[i]>> \o LinesOutsideMain(lines, i + 1, 0)

\* C27: _remove_main_functions drops exactly the lines of the standalone
\* fn main blocks and keeps every other line, those after a main block
\* included, in order (blank lines at either end aside).
C27_RemovesExactlyMainBlocks ==
    callee = "_remove_main_functions" /\ outcome # <<>> =>
        outcome[1] = StripBlankLines(LinesOutsideMain(argument, 1, 0))

\* C28: _validate_completion returns no error exactly when the completion
\* is non-empty, has at most 100000 characters and at most 5000 newlines,
\* no NUL and a UTF-8 encoding; otherwise the message of the first failed
\* check, in the order empty, too long, too many lines, null byte,
\* invalid encoding.
C28_ValidateFirstFailedCheck ==
    callee = "_validate_completion" /\ outcome # <<>> =>
        LET a == argument
            error == outcome[1]
        IN  /\ error = NoMsg <=>
                   /\ a.len > 0
                   /\ a.len <= 100000
                   /\ a.newlines <= 5000
                   /\ ~a.nul
                   /\ a.encodable
            /\ error # NoMsg =>
                   error = IF a.len = 0 THEN <<"empty completion">>
                           ELSE IF a.len > 100000
                           THEN <<"completion too long">>
                           ELSE IF a.newlines > 5000
                           THEN <<"too many lines">>
                           ELSE IF a.nul THEN <<"null byte in completion">>
                           ELSE <<"invalid UTF-8 encoding">>

\* A completion within the length limit that fails three checks at once
\* was given the message of the first of them.
C28_Witness ==
    /\ callee = "_validate_completion"
    /\ outcome = << <<"too many lines">> >>
    /\ argument.nul
    /\ ~argument.encodable

\* The nine values of the closed taxonomy of error_type.
ErrorTaxonomy ==
    {"infra_missing_toolchain", "infra_missing_linter", "compile_error",
     "compile_timeout", "lint_failure", "clippy_timeout", "assertion_failure",
     "test_timeout", "runtime_error"}

\* C25: in every record returned by rust_check_correctness, error_type is
\* null or one of the nine values of the closed taxonomy, and it is null
\* exactly when passed is true.
C25_ErrorTypeClosedTaxonomy ==
    Returned =>
        /\ ret[1].error_type \in ErrorTaxonomy \cup {None}
        /\ (ret[1].error_type = None <=> ret[1].passed)

C25_Witness ==
    /\ Returned
    /\ child_appends = 1
    /\ ret[1].error_type = "clippy_timeout"
    /\ ~ret[1].passed

\* C26: in every returned record, compile_ok is null if and only if the
\* compiler was never invoked for the completion.
C26_CompileOkNullIffNotReached ==
    Returned => (ret[1].compile_ok = None <=> "compile" \notin reached)

\* C29: the watchdog is only a backstop.  When no phase has overrun its
\* budget and the child was outside the compile, lint and test phases (no
\* phase begun yet, or its record already appended), the parent has not
\* killed the child and it returns the record the child wrote.
C29_WatchdogOnlyBackstop ==
    Returned /\ timed_out = {} /\ (reached = {} \/ child_appends = 1) =>
        /\ ~watchdog_killed
        /\ ret[1] = ReturnDict(result_dict, completion)

\* C23: on every exit from a ReliabilityContext scope, normal or by
\* exception, every guarded attribute and sys.modules entry has exactly the
\* value, or the absence, it had before the scope was entered.
C23_ScopeRestoresEverything ==
    left # <<>> => namespace = left[1].entered_with

\* C24: time_limit raises TimeoutException when the body was still running
\* after the limit had elapsed, does not raise it when the body ended within
\* the limit, and whenever the with statement has been left the timer thread
\* has ended.
C24_TimeLimitContract ==
    lpc = "exited" =>
        /\ (body_done_at[1] > seconds => exit_kind = "TimeoutException")
        /\ (body_done_at[1] < seconds => exit_kind # "TimeoutException")
        /\ timer_pc = "dead"

\* The input lines that are samples of a task.
SamplesOf(task_id) == {j \in DOMAIN samples : samples[j].task_id = task_id}

\* C21: aggregation is order-independent.  The completion_id of a future is
\* the 0-based ordinal of its sample within its task in input order; and in
\* whatever order the futures complete, every task with samples has one key
\* in results whose counts are the number of its samples and the number of
\* its passing samples, and the output has exactly one row per input sample,
\* the i-th sample of a task being paired with its own result, the one
\* whose completion_id is i.
C21_AggregationOrderIndependent ==
    /\ \A k \in DOMAIN futures :
          futures[k].completion_id =
              Cardinality({j \in SamplesOf(futures[k].task_id) :
                              j < futures[k].sample})
    /\ apc \in {"combine", "written"} =>
          /\ Len(results) = Len(Problems)
          /\ \A i, j \in DOMAIN results :
                results[i].task_id = results[j].task_id => i = j
          /\ \A i \in DOMAIN results :
                /\ total[i] = Cardinality(SamplesOf(results[i].task_id))
                /\ correct[i] =
                      Cardinality({j \in SamplesOf(results[i].task_id) :
                                      samples[j].passes})
    /\ apc = "written" =>
          /\ Len(rows) = Len(samples)
          /\ \A j \in DOMAIN samples : \E i \in DOMAIN rows : rows[i].sample = j
          /\ \A i \in DOMAIN rows :
                /\ rows[i].result_of = rows[i].sample
                /\ rows[i].passed = samples[rows[i].sample].passes
                /\ rows[i].completion_id =
                      Cardinality({j \in SamplesOf(rows[i].task_id) :
                                      j < rows[i].sample})

\* The rows are written after two futures of one task completed in the
\* reverse of their submission order, one of them passing, one failing.
C21_Witness ==
    /\ apc = "written"
    /\ \E a, b \in DOMAIN all_results_list :
          /\ a < b
          /\ all_results_list[a].task_id = all_results_list[b].task_id
          /\ all_results_list[a].completion_id > all_results_list[b].completion_id
          /\ all_results_list[a].passed # all_results_list[b].passed

====
